---- MODULE Spec2Model ----
(***************************************************************************)
(* Model of the augmented multi-context graph engine of                   *)
(* meritrank-service-rust (src/src/operations.rs, AugMultiGraph).          *)
(*                                                                         *)
(* Names (node names, context names) are sequences of one-character       *)
(* strings, so that kind_from_name can look at the first character and    *)
(* context.is_empty() is Len(context) = 0.  The null context is <<>>.      *)
(*                                                                         *)
(* Weights are integers: the unit is a weight that f64 adds and subtracts  *)
(* exactly (small multiples of 0.5), so `null + amount - old` is exact.    *)
(* An absent edge and a weight of 0 are the same thing: the estimator's    *)
(* set_edge removes the edge when the weight is 0 and edge_weight reads    *)
(* an absent edge as 0.0.                                                  *)
(***************************************************************************)
EXTENDS Integers, Sequences, FiniteSets, TLC

VARIABLES
  node_count,   \* AugMultiGraph.node_count
  node_infos,   \* AugMultiGraph.node_infos : Vec<NodeInfo>, id i is element i+1
  node_ids,     \* AugMultiGraph.node_ids   : HashMap<String, NodeId>
  contexts,     \* AugMultiGraph.contexts   : HashMap<String, MeritRank>
  last,         \* the command that produced this state, with its arguments,
                \* and how it relates to the command before it (rel)
  steps,        \* number of commands handled since construction
  s2,           \* position in the end-to-end scenario S2 (idle outside SpecS2)
  reply,        \* what the last query was asked, what the estimator answered
                \* and what the query returned (NoReply where not recorded)
  proc,         \* where each process stands: the search loop of read_graph,
                \* the workers of the service with the lock and the socket
                \* (ProcIdle where none runs)
  hasher        \* what DefaultHasher makes of each (context, name) in
                \* bloom_filter_bits: the positions of the bits of its mark,
                \* the same at every call

vars == <<node_count, node_infos, node_ids, contexts, last, steps, s2, reply, proc,
          hasher>>

\* ------------------------------------------------------------------
\*  Bounds and input sets
\* ------------------------------------------------------------------

\* Number of commands a run handles.
MaxOps == 4

U1 == <<"U", "1">>
U2 == <<"U", "2">>
C1 == <<"C", "1">>
B1 == <<"B", "1">>
N1 == <<"n", "1">>

NullContext == <<>>
CtxX == <<"X">>
CtxY == <<"Y">>

NodeNames    == {U1, C1, B1}
ContextNames == {NullContext, CtxX, CtxY}
NamedContexts == ContextNames \ {NullContext}
Amounts      == {-1, 2}

\* The edges the commands are asked to write: a User-sourced edge, and two
\* edges out of a Comment (one of them back to the User).
PutPairs == {<<U1, C1>>, <<C1, U1>>, <<C1, B1>>}

\* The nodes write_delete_node is asked to delete, the egos and the targets
\* read_node_score is asked about.
DeleteNodes == {U1, C1}
Egos        == {U1}
Targets     == {C1}

MaxNodes == Cardinality(NodeNames)
IdSpace  == 0 .. (MaxNodes - 1)
Pairs    == IdSpace \X IdSpace

\* ------------------------------------------------------------------
\*  Basic declarations
\* ------------------------------------------------------------------

NodeKinds == {"Unknown", "User", "Beacon", "Comment"}

\* marks: the Bloom filter of the node, as the set of its bits that are set
dummy_info == [kind |-> "Unknown", name |-> <<>>, marks |-> {}]

\* kind_from_name that takes every name with a first character for a User
kind_user_unless_empty(name) == IF Len(name) = 0 THEN "Unknown" ELSE "User"

kind_from_name(name) ==
  IF Len(name) = 0 THEN "Unknown"
  ELSE CASE name[1] = "U" -> "User"
         [] name[1] = "B" -> "Beacon"
         [] name[1] = "C" -> "Comment"
         [] OTHER         -> "Unknown"

\* ------------------------------------------------------------------
\*  The estimator of one context (meritrank::MeritRank), by its contract:
\*  nodes = size of its id space, w = edge weights (0 = absent),
\*  walks = the egos whose walks are materialised.
\* ------------------------------------------------------------------

MeritRank_new == [nodes |-> 0, w |-> [e \in Pairs |-> 0], walks |-> {}]

\* get_new_nodeid: adds one node, its id is the old size
get_new_nodeid(graph) == [graph EXCEPT !.nodes = @ + 1]

contains_node(graph, id) == id < graph.nodes

\* set_edge: upsert; weight 0 removes. Walks of calculated egos are updated
\* in place, they stay materialised.
graph_set_edge(graph, src, dst, weight) ==
  [graph EXCEPT !.w[<<src, dst>>] = weight]

\* edge_weight(src, dst).unwrap_or(None).unwrap_or(&0.0)
graph_edge_weight(graph, src, dst) == graph.w[<<src, dst>>]

\* calculate(ego, NUM_WALK): materialises the walks of ego
calculate(graph, ego) == [graph EXCEPT !.walks = @ \cup {ego}]

\* ------------------------------------------------------------------
\*  AugMultiGraph
\* ------------------------------------------------------------------

St == [node_count |-> node_count, node_infos |-> node_infos,
       node_ids |-> node_ids, contexts |-> contexts]

AugMultiGraph_new ==
  [node_count |-> 0, node_infos |-> <<>>,
   node_ids |-> [n \in {} |-> 0], contexts |-> [c \in {} |-> MeritRank_new]]

\* reset that leaves the map of names
reset_keeping_names(g) ==
  [g EXCEPT !.node_count = 0, !.node_infos = <<>>,
            !.contexts = [c \in {} |-> MeritRank_new]]

reset(g) ==
  [g EXCEPT !.node_count = 0, !.node_infos = <<>>,
            !.node_ids = [n \in {} |-> 0],
            !.contexts = [c \in {} |-> MeritRank_new]]

node_exists(g, node_name) == node_name \in DOMAIN g.node_ids

node_info_from_id(g, node_id) ==
  IF node_id < Len(g.node_infos) THEN g.node_infos[node_id + 1] ELSE dummy_info

\* `for _ in 0..n { graph.get_new_nodeid(); }`
RECURSIVE AddNodes(_, _)
AddNodes(graph, n) ==
  IF n = 0 THEN graph ELSE AddNodes(get_new_nodeid(graph), n - 1)

\* every edge of the null context, whatever the kind of its source
EdgesOfAnyKind(g, zero) == zero.w

\* The edges create_context copies out of the null context: those whose
\* source is a User node.
UserEdgesOf(g, zero) ==
  [e \in Pairs |->
     IF e[1] < zero.nodes /\ node_info_from_id(g, e[1]).kind = "User"
     THEN zero.w[e] ELSE 0]

Insert(map, key, value) ==
  [k \in (DOMAIN map) \cup {key} |-> IF k = key THEN value ELSE map[k]]

create_context(g, context) ==
  LET fresh == AddNodes(MeritRank_new, g.node_count)
      graph == IF Len(context) # 0 /\ NullContext \in DOMAIN g.contexts
               THEN [fresh EXCEPT !.w = UserEdgesOf(g, g.contexts[NullContext])]
               ELSE fresh
  IN  [g EXCEPT !.contexts = Insert(g.contexts, context, graph)]

\* graph_from: the state after the call; the reference it returns is
\* contexts[context] of that state.
graph_from(g, context) ==
  IF context \in DOMAIN g.contexts THEN g ELSE create_context(g, context)

edge_weight(g, context, src, dst) ==
  graph_edge_weight(graph_from(g, context).contexts[context], src, dst)

\* all_neighbors: positive edges, then negative edges (each by ascending id;
\* the callers' results do not depend on the order inside the two lists).
RECURSIVE SeqOfIds(_)
SeqOfIds(S) ==
  IF S = {} THEN <<>>
  ELSE LET m == CHOOSE x \in S : \A y \in S : x <= y
       IN  <<m>> \o SeqOfIds(S \ {m})

pos_edges(graph, node) == {d \in IdSpace : graph.w[<<node, d>>] > 0}
neg_edges(graph, node) == {d \in IdSpace : graph.w[<<node, d>>] < 0}

\* the neighbours over positive edges only
pos_neighbors_only(g, context, node) ==
  LET graph == graph_from(g, context).contexts[context]
  IN  IF ~contains_node(graph, node) THEN <<>>
      ELSE [i \in 1 .. Cardinality(pos_edges(graph, node)) |->
              LET d == SeqOfIds(pos_edges(graph, node))[i]
              IN  <<d, graph.w[<<node, d>>]>>]

all_neighbors(g, context, node) ==
  LET graph == graph_from(g, context).contexts[context]
  IN  IF ~contains_node(graph, node) THEN <<>>
      ELSE [i \in 1 .. Cardinality(pos_edges(graph, node)) |->
              LET d == SeqOfIds(pos_edges(graph, node))[i]
              IN  <<d, graph.w[<<node, d>>]>>]
           \o
           [i \in 1 .. Cardinality(neg_edges(graph, node)) |->
              LET d == SeqOfIds(neg_edges(graph, node))[i]
              IN  <<d, graph.w[<<node, d>>]>>]

\* The id find_or_add_node_by_name returns.
NodeIdOf(g, node_name) ==
  IF node_name \in DOMAIN g.node_ids THEN g.node_ids[node_name] ELSE g.node_count

Resize(seq, n, default) ==
  [i \in 1 .. n |-> IF i <= Len(seq) THEN seq[i] ELSE default]

\* a context that is not told of the new id
grow_not(graph, node_id) == graph

\* `while graph.get_new_nodeid() < node_id {}`
RECURSIVE GrowTo(_, _)
GrowTo(graph, node_id) ==
  LET grown == get_new_nodeid(graph)
  IN  IF graph.nodes < node_id THEN GrowTo(grown, node_id) ELSE grown

\* The state after find_or_add_node_by_name(node_name).
find_or_add_node_by_name(g, node_name) ==
  LET node_id == NodeIdOf(g, node_name)
      g1 == IF node_name \in DOMAIN g.node_ids THEN g
            ELSE [g EXCEPT
                    !.node_count = g.node_count + 1,
                    !.node_infos =
                       [Resize(g.node_infos, g.node_count + 1, dummy_info)
                          EXCEPT ![node_id + 1] =
                            [kind |-> kind_from_name(node_name),
                             name |-> node_name,
                             marks |-> {}]],
                    !.node_ids = Insert(g.node_ids, node_name, node_id)]
  IN  [g1 EXCEPT !.contexts =
         [c \in DOMAIN g1.contexts |->
            IF contains_node(g1.contexts[c], node_id) THEN g1.contexts[c]
            ELSE GrowTo(g1.contexts[c], node_id)]]

\* `let delta = null_weight + amount - old_weight;`, without the old weight
delta_without_old(null_weight, amount, old_weight) == null_weight + amount

\* the null context given the amount itself
delta_is_amount(null_weight, amount, old_weight) == amount

\* `let delta = null_weight + amount - old_weight;`
delta_of(null_weight, amount, old_weight) == null_weight + amount - old_weight

\* a User edge written into the null context and the named one only
null_and_named_only(g, context) == {NullContext, context}

\* `for (enum_context, graph) in &mut self.contexts`: the contexts a User
\* edge is written into
contexts_of_user_edge(g, context) == DOMAIN g.contexts

\* set_edge that writes every edge the way it writes the edge of a User
set_edge_in_every_context(g, context, src, dst, amount) ==
  LET g1 == graph_from(g, NullContext)
      g2 == IF Len(context) # 0 THEN graph_from(g1, context) ELSE g1
  IN  [g2 EXCEPT !.contexts =
         [c \in DOMAIN g2.contexts |-> graph_set_edge(g2.contexts[c], src, dst, amount)]]

set_edge(g, context, src, dst, amount) ==
  IF node_info_from_id(g, src).kind = "User"
  THEN LET g1 == graph_from(g, NullContext)
           g2 == IF Len(context) # 0 THEN graph_from(g1, context) ELSE g1
       IN  [g2 EXCEPT !.contexts =
              [c \in DOMAIN g2.contexts |->
                 IF c \in contexts_of_user_edge(g2, context)
                 THEN graph_set_edge(g2.contexts[c], src, dst, amount)
                 ELSE g2.contexts[c]]]
  ELSE IF Len(context) = 0
  THEN LET g1 == graph_from(g, context)
       IN  [g1 EXCEPT !.contexts[context] =
              graph_set_edge(g1.contexts[context], src, dst, amount)]
  ELSE LET g1          == graph_from(g, NullContext)
           null_weight == edge_weight(g, NullContext, src, dst)
           g2          == graph_from(g1, context)
           old_weight  == edge_weight(g1, context, src, dst)
           delta       == delta_of(null_weight, amount, old_weight)
           g3 == [g2 EXCEPT !.contexts[NullContext] =
                    graph_set_edge(g2.contexts[NullContext], src, dst, delta)]
       IN  [g3 EXCEPT !.contexts[context] =
              graph_set_edge(g3.contexts[context], src, dst, amount)]

\* ------------------------------------------------------------------
\*  Commands (as functions of the state)
\* ------------------------------------------------------------------

write_create_context(g, context) == create_context(g, context)

write_put_edge(g, context, src, dst, amount) ==
  LET g1     == find_or_add_node_by_name(g, src)
      src_id == NodeIdOf(g, src)
      g2     == find_or_add_node_by_name(g1, dst)
      dst_id == NodeIdOf(g1, dst)
  IN  set_edge(g2, context, src_id, dst_id, amount)

\* write_delete_edge without its early return
write_delete_edge_unguarded(g, context, src, dst) ==
  LET g1     == find_or_add_node_by_name(g, src)
      src_id == NodeIdOf(g, src)
      g2     == find_or_add_node_by_name(g1, dst)
      dst_id == NodeIdOf(g1, dst)
  IN  set_edge(g2, context, src_id, dst_id, 0)

write_delete_edge(g, context, src, dst) ==
  IF ~node_exists(g, src) \/ ~node_exists(g, dst) THEN g
  ELSE LET g1     == find_or_add_node_by_name(g, src)
           src_id == NodeIdOf(g, src)
           g2     == find_or_add_node_by_name(g1, dst)
           dst_id == NodeIdOf(g1, dst)
       IN  set_edge(g2, context, src_id, dst_id, 0)

\* `for (n, _) in neighbors { self.set_edge(context, id, n, 0.0); }`
RECURSIVE ZeroEach(_, _, _, _)
ZeroEach(g, context, id, neighbors) ==
  IF neighbors = <<>> THEN g
  ELSE ZeroEach(set_edge(g, context, id, Head(neighbors)[1], 0),
                context, id, Tail(neighbors))

\* write_delete_node that takes the node out of the registry
write_delete_node_unregistering(g, context, node) ==
  [g EXCEPT !.node_ids = [n \in (DOMAIN g.node_ids) \ {node} |-> g.node_ids[n]]]

write_delete_node(g, context, node) ==
  IF ~node_exists(g, node) THEN g
  ELSE LET g1 == find_or_add_node_by_name(g, node)
           id == NodeIdOf(g, node)
           g2 == graph_from(g1, context)
       IN  ZeroEach(g2, context, id, all_neighbors(g1, context, id))

write_reset(g) == reset(g)

\* What a lookup of the estimator (get_node_score, get_ranks) or its
\* calculate answers: Ok, or one of the errors of MeritRankError. "Other" is
\* any error that is neither NodeDoesNotExist nor NodeDoesNotCalculated.
Outcomes == {"Ok", "NodeDoesNotExist", "NodeDoesNotCalculated", "Other"}

\* get_node_score(ego, target) by its contract: NodeDoesNotExist when a node
\* is unknown, NodeDoesNotCalculated when the walks of ego are absent
node_score_result(graph, ego, target) ==
  IF ~contains_node(graph, ego) \/ ~contains_node(graph, target)
  THEN "NodeDoesNotExist"
  ELSE IF ego \in graph.walks THEN "Ok" ELSE "NodeDoesNotCalculated"

\* get_ranks(ego, None): same failure modes
ranks_result(graph, ego) ==
  IF ~contains_node(graph, ego) THEN "NodeDoesNotExist"
  ELSE IF ego \in graph.walks THEN "Ok" ELSE "NodeDoesNotCalculated"

\* the recovery that calls calculate whatever the first lookup answered
score_recalculating_always(first, calc, retry, score) ==
  IF calc # "Ok" THEN [value |-> 0, calls |-> 1, lookups |-> 1]
  ELSE IF retry = "Ok" THEN [value |-> score, calls |-> 1, lookups |-> 2]
  ELSE [value |-> 0, calls |-> 1, lookups |-> 2]

\* The match of get_score_or_recalculate over what the first lookup, the
\* calculate and the second lookup answer: the value returned, the number of
\* calculate calls and the number of lookups made.  score is what a lookup
\* that answers Ok returns.
score_or_recalculate(first, calc, retry, score) ==
  CASE first = "Ok" -> [value |-> score, calls |-> 0, lookups |-> 1]
    [] first = "NodeDoesNotExist" -> [value |-> 0, calls |-> 0, lookups |-> 1]
    [] OTHER ->
         IF calc # "Ok" THEN [value |-> 0, calls |-> 1, lookups |-> 1]
         ELSE IF retry = "Ok" THEN [value |-> score, calls |-> 1, lookups |-> 2]
         ELSE [value |-> 0, calls |-> 1, lookups |-> 2]

\* The same match in get_ranks_or_recalculate; ranks is the list a lookup
\* that answers Ok returns.
ranks_or_recalculate(first, calc, retry, ranks) ==
  CASE first = "Ok" -> [value |-> ranks, calls |-> 0, lookups |-> 1]
    [] first = "NodeDoesNotExist" -> [value |-> <<>>, calls |-> 0, lookups |-> 1]
    [] OTHER ->
         IF calc # "Ok" THEN [value |-> <<>>, calls |-> 1, lookups |-> 1]
         ELSE IF retry = "Ok" THEN [value |-> ranks, calls |-> 1, lookups |-> 2]
         ELSE [value |-> <<>>, calls |-> 1, lookups |-> 2]

\* get_score_or_recalculate: the state after the call.  In a context of the
\* graph a calculate for a node the estimator knows succeeds and the lookup
\* after it answers Ok.
get_score_or_recalculate(g, context, src_id, dst_id) ==
  LET g1    == graph_from(g, context)
      graph == g1.contexts[context]
      r     == score_or_recalculate(node_score_result(graph, src_id, dst_id),
                                    "Ok", "Ok", 0)
  IN  IF r.calls = 0 THEN g1
      ELSE [g1 EXCEPT !.contexts[context] = calculate(graph, src_id)]

\* get_score_or_recalculate: the value returned, score being the estimator's
\* score of dst_id for src_id
get_score_or_recalculate_value(g, context, src_id, dst_id, score) ==
  LET graph == graph_from(g, context).contexts[context]
  IN  score_or_recalculate(node_score_result(graph, src_id, dst_id),
                           "Ok", "Ok", score)

\* get_ranks_or_recalculate: the state after the call
get_ranks_or_recalculate(g, context, node_id) ==
  LET g1    == graph_from(g, context)
      graph == g1.contexts[context]
      r     == ranks_or_recalculate(ranks_result(graph, node_id), "Ok", "Ok", <<>>)
  IN  IF r.calls = 0 THEN g1
      ELSE [g1 EXCEPT !.contexts[context] = calculate(graph, node_id)]

\* get_ranks_or_recalculate: the list returned, ranks being the estimator's
\* ranking for node_id
get_ranks_or_recalculate_value(g, context, node_id, ranks) ==
  LET graph == graph_from(g, context).contexts[context]
  IN  ranks_or_recalculate(ranks_result(graph, node_id), "Ok", "Ok", ranks)

read_node_score(g, context, ego, target) ==
  IF context \notin DOMAIN g.contexts THEN g
  ELSE IF ~node_exists(g, ego) THEN g
  ELSE IF ~node_exists(g, target) THEN g
  ELSE LET g1        == find_or_add_node_by_name(g, ego)
           ego_id    == NodeIdOf(g, ego)
           g2        == find_or_add_node_by_name(g1, target)
           target_id == NodeIdOf(g1, target)
       IN  get_score_or_recalculate(g2, context, ego_id, target_id)

\* ------------------------------------------------------------------
\*  Queries: the state after them and the rows they return.  What the
\*  estimator answers when a lookup succeeds (a score, a ranking) is an
\*  argument.
\* ------------------------------------------------------------------

\* read_node_score: the rows returned; score is the estimator's score of
\* target for ego
\* a read_node_score that answers the score it is given, whatever it names
read_node_score_rows_unchecked(g, context, ego, target, score) ==
  << <<ego, target, score>> >>

read_node_score_rows(g, context, ego, target, score) ==
  IF context \notin DOMAIN g.contexts THEN << <<ego, target, 0>> >>
  ELSE IF ~node_exists(g, ego) THEN << <<ego, target, 0>> >>
  ELSE IF ~node_exists(g, target) THEN << <<ego, target, 0>> >>
  ELSE LET g1        == find_or_add_node_by_name(g, ego)
           ego_id    == NodeIdOf(g, ego)
           g2        == find_or_add_node_by_name(g1, target)
           target_id == NodeIdOf(g1, target)
           w         == get_score_or_recalculate_value(g2, context, ego_id,
                                                       target_id, score).value
       IN  << <<ego, target, w>> >>

Abs(x) == IF x < 0 THEN -x ELSE x

\* `let kind = match kind_str`
KindStrings == {"", "U", "B", "C"}

kind_of_str(kind_str) ==
  CASE kind_str = ""  -> "Unknown"
    [] kind_str = "U" -> "User"
    [] kind_str = "B" -> "Beacon"
    [] kind_str = "C" -> "Comment"

\* the filters without the one of hide_personal
read_scores_keeps_personal(g, context, node_id, kind, q, n, w) ==
  LET target_kind == node_info_from_id(g, n).kind
  IN  /\ kind = "Unknown" \/ kind = target_kind
      /\ q.score_gt < w \/ (q.score_gte /\ q.score_gt <= w)
      /\ w < q.score_lt \/ (q.score_lte /\ q.score_lt >= w)

\* the four filters of read_scores, on one ranked (target, score); q holds
\* the arguments hide_personal, score_lt, score_lte, score_gt, score_gte
read_scores_keeps(g, context, node_id, kind, q, n, w) ==
  LET target_kind == node_info_from_id(g, n).kind
      graph       == graph_from(g, context).contexts[context]
  IN  /\ kind = "Unknown" \/ kind = target_kind
      /\ q.score_gt < w \/ (q.score_gte /\ q.score_gt <= w)
      /\ w < q.score_lt \/ (q.score_lte /\ q.score_lt >= w)
      /\ \/ ~q.hide_personal
         \/ target_kind # "Comment" /\ target_kind # "Beacon"
         \/ ~contains_node(graph, n)
         \/ ~contains_node(graph, node_id)
         \/ graph_edge_weight(graph, n, node_id) = 0

\* `im.sort_by(|(_, a), (_, b)| b.abs().total_cmp(&a.abs()))`: a stable sort,
\* |score| descending
RECURSIVE InsertByAbs(_, _)
InsertByAbs(sorted, x) ==
  IF sorted = <<>> THEN <<x>>
  ELSE IF Abs(Head(sorted)[2]) >= Abs(x[2])
       THEN <<Head(sorted)>> \o InsertByAbs(Tail(sorted), x)
       ELSE <<x>> \o sorted

RECURSIVE sort_by_abs(_)
sort_by_abs(im) ==
  IF im = <<>> THEN <<>>
  ELSE InsertByAbs(sort_by_abs(SubSeq(im, 1, Len(im) - 1)), im[Len(im)])

\* the page that is the whole list
page_everything(im, index, count) == im

\* `for i in index..count { if i >= im.len() { break; } page.push(..) }`
page_of(im, index, count) ==
  LET end == IF count < Len(im) THEN count ELSE Len(im)
  IN  IF index >= end THEN <<>>
      ELSE [k \in 1 .. (end - index) |-> im[index + k]]

\* read_scores: the state after the call
read_scores(g, context, ego, kind_str) ==
  IF kind_str \notin KindStrings THEN g
  ELSE IF context \notin DOMAIN g.contexts THEN g
  ELSE IF ~node_exists(g, ego) THEN g
  ELSE LET g1      == find_or_add_node_by_name(g, ego)
           node_id == NodeIdOf(g, ego)
       IN  get_ranks_or_recalculate(g1, context, node_id)

\* read_scores: the list `im` after the filters and the sort, as
\* (target id, score); q holds the arguments after ego, and q.ranks the
\* estimator's ranking for ego
read_scores_im(g, context, ego, q) ==
  LET g1      == find_or_add_node_by_name(g, ego)
      node_id == NodeIdOf(g, ego)
      got     == get_ranks_or_recalculate_value(g1, context, node_id, q.ranks).value
      g2      == get_ranks_or_recalculate(g1, context, node_id)
      Keeps(r) == read_scores_keeps(g2, context, node_id, kind_of_str(q.kind_str),
                                    q, r[1], r[2])
  IN  sort_by_abs(SelectSeq(got, Keeps))

\* read_scores: the rows returned, as (ego, target name, score)
read_scores_rows(g, context, ego, q) ==
  IF q.kind_str \notin KindStrings THEN <<>>
  ELSE IF context \notin DOMAIN g.contexts THEN <<>>
  ELSE IF ~node_exists(g, ego) THEN <<>>
  ELSE LET im   == read_scores_im(g, context, ego, q)
           page == page_of(im, q.index, q.count)
       IN  [k \in 1 .. Len(page) |->
              <<ego, node_info_from_id(g, page[k][1]).name, page[k][2]>>]

\* ---- read_graph ----
\* A normalised weight is the fraction <<n, d>>, d > 0: the stored weight n
\* over the positive out-weight sum d of its source.

RECURSIVE SumOfWeights(_, _, _)
SumOfWeights(graph, node, S) ==
  IF S = {} THEN 0
  ELSE LET d == CHOOSE x \in S : TRUE
       IN  graph.w[<<node, d>>] + SumOfWeights(graph, node, S \ {d})

\* NodeData::pos_sum
pos_sum(graph, node) == SumOfWeights(graph, node, pos_edges(graph, node))

\* `if x.pos_sum < EPSILON { 1.0 } else { x.pos_sum }`
one_if_not_positive(sum) == IF sum <= 0 THEN 1 ELSE sum

\* the divisor of the weights out of node: its pos_sum, and 1.0 without data
pos_sum_or_one(graph, node) ==
  IF ~contains_node(graph, node) THEN 1
  ELSE one_if_not_positive(pos_sum(graph, node))

edge_weight_normalized(g, context, src, dst) ==
  <<edge_weight(g, context, src, dst),
    pos_sum_or_one(graph_from(g, context).contexts[context], src)>>

\* `v.push((*x.0, *x.1 / pos_sum))`
normalized(v, sum) == [i \in 1 .. Len(v) |-> <<v[i][1], <<v[i][2], sum>>>>]

\* the neighbours with their stored weights, none divided by pos_sum
all_neighbors_as_stored(g, context, node) ==
  normalized(all_neighbors(g, context, node), 1)

all_neighbors_normalized(g, context, node) ==
  normalized(all_neighbors(g, context, node),
             pos_sum_or_one(graph_from(g, context).contexts[context], node))

\* the contraction whose sign rule is left out: the plain product
contract_by_product(a_b_weight, b_c_weight) ==
  <<a_b_weight[1] * b_c_weight[1], a_b_weight[2] * b_c_weight[2]>>

\* `a_b_weight * b_c_weight * if a_b_weight < 0.0 && b_c_weight < 0.0 { -1.0 } else { 1.0 }`
contract(a_b_weight, b_c_weight) ==
  <<a_b_weight[1] * b_c_weight[1]
      * (IF a_b_weight[1] < 0 /\ b_c_weight[1] < 0 THEN -1 ELSE 1),
    a_b_weight[2] * b_c_weight[2]>>

RECURSIVE Concat(_)
Concat(seqs) == IF seqs = <<>> THEN <<>> ELSE Head(seqs) \o Concat(Tail(seqs))

\* the calls get_score_or_recalculate(context, src_id, d), d along dsts: the
\* state after them
RECURSIVE ScoreEach(_, _, _, _)
ScoreEach(g, context, src_id, dsts) ==
  IF dsts = <<>> THEN g
  ELSE ScoreEach(get_score_or_recalculate(g, context, src_id, Head(dsts)),
                 context, src_id, Tail(dsts))

\* the calls get_score_or_recalculate(context, s, dst_id), s along srcs
RECURSIVE ScoreBack(_, _, _, _)
ScoreBack(g, context, srcs, dst_id) ==
  IF srcs = <<>> THEN g
  ELSE ScoreBack(get_score_or_recalculate(g, context, Head(srcs), dst_id),
                 context, Tail(srcs), dst_id)

\* the neighbours of the Comment or Beacon that are contracted: not focus,
\* Users, and of positive weight when positive_only
taken_neighbors(g, focus_id, positive_only, dst_neighbors) ==
  LET Taken(x) == ~ \/ positive_only /\ x[2][1] <= 0
                    \/ x[1] = focus_id
                    \/ node_info_from_id(g, x[1]).kind # "User"
  IN  SelectSeq(dst_neighbors, Taken)

\* the contracted edges focus -> ngh through a Comment or Beacon
contracted_edges(focus_id, focus_dst_weight, taken) ==
  [i \in 1 .. Len(taken) |->
     <<focus_id, taken[i][1], contract(focus_dst_weight, taken[i][2])>>]

\* the edges added for one neighbour x = (dst_id, focus_dst_weight) of focus
focus_edges_of(g, context, ego_id, focus_id, positive_only, scores, x) ==
  IF node_info_from_id(g, x[1]).kind = "User"
  THEN IF positive_only
          /\ get_score_or_recalculate_value(g, context, ego_id, x[1],
                                            scores[x[1]]).value <= 0
       THEN <<>>
       ELSE << <<focus_id, x[1], x[2]>> >>
  ELSE IF node_info_from_id(g, x[1]).kind \in {"Comment", "Beacon"}
  THEN contracted_edges(focus_id, x[2],
         taken_neighbors(g, focus_id, positive_only,
                         all_neighbors_normalized(g, context, x[1])))
  ELSE <<>>

focus_edges_over(g, context, ego_id, focus_id, positive_only, scores, focus_neighbors) ==
  Concat([k \in 1 .. Len(focus_neighbors) |->
            focus_edges_of(g, context, ego_id, focus_id, positive_only, scores,
                           focus_neighbors[k])])

\* the edges added to im_graph for the neighbours of focus, in the order they
\* are added, as (src id, dst id, weight); scores[d] is the estimator's score
\* of d for ego
focus_edges(g, context, ego_id, focus_id, positive_only, scores) ==
  focus_edges_over(g, context, ego_id, focus_id, positive_only, scores,
                   all_neighbors_normalized(g, context, focus_id))

\* the edge pushed for the step k of the path, a -> b being that step
path_edge_of(g, context, ego_to_focus, k, a, b, a_b_weight) ==
  IF k + 2 = Len(ego_to_focus)
  THEN IF node_info_from_id(g, a).kind = "User"
       THEN << <<a, b, a_b_weight>> >> ELSE <<>>
  ELSE IF node_info_from_id(g, b).kind # "User"
  THEN << <<a, ego_to_focus[k + 3],
            contract(a_b_weight,
                     edge_weight_normalized(g, context, b, ego_to_focus[k + 3]))>> >>
  ELSE IF node_info_from_id(g, a).kind = "User"
       THEN << <<a, b, a_b_weight>> >> ELSE <<>>

\* the edges taken from the path ego_to_focus, in the order they are pushed
path_edges(g, context, ego_to_focus) ==
  IF Len(ego_to_focus) < 2 THEN <<>>
  ELSE Concat([k \in 1 .. (Len(ego_to_focus) - 1) |->
                 path_edge_of(g, context, ego_to_focus, k - 1,
                              ego_to_focus[k], ego_to_focus[k + 1],
                              edge_weight_normalized(g, context, ego_to_focus[k],
                                                     ego_to_focus[k + 1]))])

\* `edge_ids`: self references removed, zero weights left out, one edge for
\* each (src, dst): the edge added last, which im_graph.edges yields first
edge_ids_of(added) ==
  LET Kept(k) == /\ added[k][1] # added[k][2]
                 /\ added[k][3][1] # 0
      Last(k) == /\ Kept(k)
                 /\ \A j \in (k + 1) .. Len(added) :
                      ~(Kept(j) /\ added[j][1] = added[k][1] /\ added[j][2] = added[k][2])
  IN  Concat([k \in 1 .. Len(added) |-> IF Last(k) THEN <<added[k]>> ELSE <<>>])

\* `edge_ids.sort_by(|(_, _, a), (_, _, b)| b.abs().total_cmp(&a.abs()))`
RECURSIVE InsertEdgeByAbs(_, _)
InsertEdgeByAbs(sorted, x) ==
  IF sorted = <<>> THEN <<x>>
  ELSE IF Abs(Head(sorted)[3][1]) * x[3][2] >= Abs(x[3][1]) * Head(sorted)[3][2]
       THEN <<Head(sorted)>> \o InsertEdgeByAbs(Tail(sorted), x)
       ELSE <<x>> \o sorted

RECURSIVE sort_edges_by_abs(_)
sort_edges_by_abs(edge_ids) ==
  IF edge_ids = <<>> THEN <<>>
  ELSE InsertEdgeByAbs(sort_edges_by_abs(SubSeq(edge_ids, 1, Len(edge_ids) - 1)),
                       edge_ids[Len(edge_ids)])

\* a page cut as read_scores cuts it: positions index .. count - 1
skip_to_count(s, index, count) ==
  LET end == IF count < Len(s) THEN count ELSE Len(s)
  IN  IF index >= end THEN <<>> ELSE SubSeq(s, index + 1, end)

\* `.skip(index).take(count)`
skip_take(s, index, count) ==
  LET end == IF index + count < Len(s) THEN index + count ELSE Len(s)
  IN  IF index >= end THEN <<>> ELSE SubSeq(s, index + 1, end)

\* read_graph: the state after the call (walks of ego, when positive_only
\* asks for the score of a User neighbour of focus)
read_graph(g, context, ego, focus, positive_only) ==
  IF context \notin DOMAIN g.contexts THEN g
  ELSE IF ~node_exists(g, ego) THEN g
  ELSE IF ~node_exists(g, focus) THEN g
  ELSE LET nb      == all_neighbors(g, context, NodeIdOf(g, focus))
           IsUser(x) == node_info_from_id(g, x[1]).kind = "User"
           users   == SelectSeq(nb, IsUser)
       IN  IF positive_only
           THEN ScoreEach(g, context, NodeIdOf(g, ego),
                          [k \in 1 .. Len(users) |-> users[k][1]])
           ELSE g

\* the rows of a page of edge_ids, as (src name, dst name, weight)
edge_rows(g, page) ==
  [k \in 1 .. Len(page) |->
     <<node_info_from_id(g, page[k][1]).name, node_info_from_id(g, page[k][2]).name,
       page[k][3]>>]

\* the edges added when the path is processed whether ego is focus or not
added_edges_with_path(g, context, ego_id, focus_id, q) ==
  focus_edges(g, context, ego_id, focus_id, q.positive_only, q.scores)
    \o path_edges(g, context, q.ego_to_focus)

\* the edges added to im_graph: those of the focus neighbours, and those of
\* the path when ego is not focus
added_edges(g, context, ego_id, focus_id, q) ==
  IF ego_id = focus_id
  THEN focus_edges(g, context, ego_id, focus_id, q.positive_only, q.scores)
  ELSE focus_edges(g, context, ego_id, focus_id, q.positive_only, q.scores)
         \o path_edges(g, context, q.ego_to_focus)

\* what read_graph returns from the edges added; with an empty path
\* `ego_to_focus.len() - 1` underflows: the call panics
graph_reply(g, panic, added, index, count) ==
  [panic |-> panic, added |-> added,
   rows  |-> IF panic THEN <<>>
             ELSE edge_rows(g, skip_take(sort_edges_by_abs(edge_ids_of(added)),
                                         index, count))]

\* read_graph: what the call returns; q holds the arguments positive_only,
\* index and count, the estimator's scores for ego and the path ego_to_focus
\* that the search leaves
read_graph_result(g, context, ego, focus, q) ==
  IF context \notin DOMAIN g.contexts THEN [panic |-> FALSE, added |-> <<>>, rows |-> <<>>]
  ELSE IF ~node_exists(g, ego) THEN [panic |-> FALSE, added |-> <<>>, rows |-> <<>>]
  ELSE IF ~node_exists(g, focus) THEN [panic |-> FALSE, added |-> <<>>, rows |-> <<>>]
  ELSE graph_reply(g, NodeIdOf(g, ego) # NodeIdOf(g, focus) /\ q.ego_to_focus = <<>>,
                   added_edges(g, context, NodeIdOf(g, ego), NodeIdOf(g, focus), q),
                   q.index, q.count)

\* ---- the other queries, and the beacon marks ----

BLOOM_FILTER_NUM_BITS == 8

\* bloom_filter_bits: the bits of (context, name), one for each of the
\* BLOOM_FILTER_NUM_BITS hashes, at the positions the hasher gives
bloom_filter_bits(context, name) == hasher[<<context, name>>]

\* an add that stores the bits in place of the mask
bloom_filter_store(mask, bits) == bits

bloom_filter_add(mask, bits) == mask \cup bits

\* a test that is content with one bit of the pattern
bloom_filter_contains_any(mask, bits) == bits \cap mask # {}

bloom_filter_contains(mask, bits) == bits \subseteq mask

\* the Beacon nodes, by ascending id: `for beacon_id in 0..self.node_count`
Beacons(g) ==
  SeqOfIds({b \in 0 .. (g.node_count - 1) : g.node_infos[b + 1].kind = "Beacon"})

\* write_mark_beacons: scores[b] is the estimator's score of b for src
write_mark_beacons(g, context, src, scores) ==
  LET g1     == find_or_add_node_by_name(g, src)
      src_id == NodeIdOf(g, src)
      mark   == bloom_filter_bits(context, src)
      g2     == ScoreEach(g1, context, src_id, Beacons(g1))
      Marked(i) ==
        /\ g1.node_infos[i].kind = "Beacon"
        /\ get_score_or_recalculate_value(g1, context, src_id, i - 1,
                                          scores[i - 1]).value > 0
  IN  [g2 EXCEPT !.node_infos =
         [i \in 1 .. Len(g2.node_infos) |->
            IF Marked(i)
            THEN [g2.node_infos[i] EXCEPT !.marks = bloom_filter_add(@, mark)]
            ELSE g2.node_infos[i]]]

\* read_unmarked_beacons: the state after the call
read_unmarked_beacons(g, context, src) ==
  IF context \notin DOMAIN g.contexts THEN g
  ELSE IF ~node_exists(g, src) THEN g
  ELSE ScoreEach(g, context, NodeIdOf(g, src), Beacons(g))

\* `v.sort_by(|(_, a), (_, b)| b.total_cmp(a))`: a stable sort, score
\* descending
RECURSIVE InsertByScore(_, _)
InsertByScore(sorted, x) ==
  IF sorted = <<>> THEN <<x>>
  ELSE IF Head(sorted)[2] >= x[2]
       THEN <<Head(sorted)>> \o InsertByScore(Tail(sorted), x)
       ELSE <<x>> \o sorted

RECURSIVE sort_by_score(_)
sort_by_score(v) ==
  IF v = <<>> THEN <<>>
  ELSE InsertByScore(sort_by_score(SubSeq(v, 1, Len(v) - 1)), v[Len(v)])

\* read_unmarked_beacons: the rows returned, as (beacon name, score)
read_unmarked_beacons_rows(g, context, src, scores) ==
  IF context \notin DOMAIN g.contexts THEN <<>>
  ELSE IF ~node_exists(g, src) THEN <<>>
  ELSE LET src_id == NodeIdOf(g, src)
           mark   == bloom_filter_bits(context, src)
           Score(b) == get_score_or_recalculate_value(g, context, src_id, b,
                                                      scores[b]).value
           Listed(b) == /\ Score(b) > 0
                        /\ ~bloom_filter_contains(g.node_infos[b + 1].marks, mark)
           listed == SelectSeq(Beacons(g), Listed)
       IN  sort_by_score([k \in 1 .. Len(listed) |->
                            <<g.node_infos[listed[k] + 1].name, Score(listed[k])>>])

\* a read_connected that goes through graph_from without the two checks
read_connected_creating(g, context, ego) ==
  graph_from(find_or_add_node_by_name(g, ego), context)

\* read_connected
read_connected(g, context, ego) == g

read_connected_rows(g, context, ego) ==
  IF context \notin DOMAIN g.contexts THEN <<>>
  ELSE IF ~node_exists(g, ego) THEN <<>>
  ELSE LET v == all_neighbors(g, context, NodeIdOf(g, ego))
       IN  [i \in 1 .. Len(v) |-> <<ego, node_info_from_id(g, v[i][1]).name>>]

\* read_node_list
read_node_list(g) == g

read_node_list_rows(g) == [i \in 1 .. Len(g.node_infos) |-> <<g.node_infos[i].name>>]

\* read_edges
read_edges(g, context) == g

read_edges_rows(g, context) ==
  IF context \notin DOMAIN g.contexts THEN <<>>
  ELSE LET RowsOfSrc(src_id) ==
             LET v == all_neighbors(g, context, src_id)
             IN  [i \in 1 .. Len(v) |->
                    <<g.node_infos[src_id + 1].name, g.node_infos[v[i][1] + 1].name,
                      v[i][2]>>]
       IN  Concat([n \in 1 .. Len(g.node_infos) |-> RowsOfSrc(n - 1)])

\* read_mutual_scores: the state after the call; ranks is the estimator's
\* ranking for ego
read_mutual_scores(g, context, ego, ranks) ==
  IF context \notin DOMAIN g.contexts THEN g
  ELSE IF ~node_exists(g, ego) THEN g
  ELSE LET ego_id == NodeIdOf(g, ego)
           g1     == get_ranks_or_recalculate(g, context, ego_id)
           got    == get_ranks_or_recalculate_value(g, context, ego_id, ranks).value
           Taken(r) == r[2] > 0 /\ node_info_from_id(g, r[1]).kind = "User"
           taken  == SelectSeq(got, Taken)
       IN  ScoreBack(g1, context, [k \in 1 .. Len(taken) |-> taken[k][1]], ego_id)

\* read_mutual_scores: the rows returned, as (name, score, score back);
\* back[n] is the estimator's score of ego for n
read_mutual_scores_rows(g, context, ego, ranks, back) ==
  IF context \notin DOMAIN g.contexts THEN <<>>
  ELSE IF ~node_exists(g, ego) THEN <<>>
  ELSE LET ego_id == NodeIdOf(g, ego)
           got    == get_ranks_or_recalculate_value(g, context, ego_id, ranks).value
           Taken(r) == r[2] > 0 /\ node_info_from_id(g, r[1]).kind = "User"
           taken  == SelectSeq(got, Taken)
       IN  [k \in 1 .. Len(taken) |->
              <<node_info_from_id(g, taken[k][1]).name, taken[k][2],
                get_score_or_recalculate_value(g, context, taken[k][1], ego_id,
                                               back[taken[k][1]]).value>>]

\* ------------------------------------------------------------------
\*  The state machine
\* ------------------------------------------------------------------

NoArg == <<"-">>

\* weight of the edge between two names in a context, 0 when the context or
\* one of the names is not there
WeightByName(context, src, dst) ==
  IF context \in DOMAIN contexts /\ src \in DOMAIN node_ids /\ dst \in DOMAIN node_ids
  THEN contexts[context].w[<<node_ids[src], node_ids[dst]>>]
  ELSE 0

\* rel: "same" when the command repeats the one before it, "undo" when it is
\* the write_delete_edge of the edge the command before it put, in the same
\* context.
Rel(op, context, src, dst, amount) ==
  IF  /\ op = last.op /\ context = last.context /\ src = last.src
      /\ dst = last.dst /\ amount = last.amount
  THEN "same"
  ELSE IF /\ op = "write_delete_edge" /\ last.op = "write_put_edge"
          /\ context = last.context /\ src = last.src /\ dst = last.dst
  THEN "undo"
  ELSE "none"

NoPre == <<0, 0>>

\* number of edges out of a named node in a context
OutDegree(context, node) ==
  Cardinality({d \in IdSpace :
                 /\ context \in DOMAIN contexts
                 /\ node \in DOMAIN node_ids
                 /\ contexts[context].w[<<node_ids[node], d>>] # 0})

\* pre: for a put, the weights the null context and the put's context held
\* for the edge before it; an undoing delete keeps the pre of its put; for a
\* write_delete_node, the number of edges out of the node in the context
\* before it.
Cmd(op, context, src, dst, amount) ==
  [op |-> op, context |-> context, src |-> src, dst |-> dst, amount |-> amount,
   rel |-> Rel(op, context, src, dst, amount),
   pre |-> IF op = "write_put_edge"
           THEN <<WeightByName(NullContext, src, dst),
                  WeightByName(context, src, dst)>>
           ELSE IF Rel(op, context, src, dst, amount) = "undo" THEN last.pre
           ELSE IF op = "write_delete_node" THEN <<OutDegree(context, src), 0>>
           ELSE NoPre]

S2Idle == [pc |-> "idle"]

NoReply == [op |-> "none"]

ProcIdle == [pc |-> "idle"]

\* A hasher under which no two (context, name) share a bit: each of the
\* BLOOM_FILTER_NUM_BITS bits of a mark is named by what is hashed.
NoCollisions ==
  [k \in ContextNames \X {U1, U2, C1, B1, N1} |->
     {<<n, k[1], k[2]>> : n \in 1 .. BLOOM_FILTER_NUM_BITS}]

Init ==
  /\ node_count = AugMultiGraph_new.node_count
  /\ node_infos = AugMultiGraph_new.node_infos
  /\ node_ids   = AugMultiGraph_new.node_ids
  /\ contexts   = AugMultiGraph_new.contexts
  /\ last       = [op |-> "new", context |-> NoArg, src |-> NoArg,
                    dst |-> NoArg, amount |-> 0, rel |-> "none",
                    pre |-> NoPre]
  /\ steps      = 0
  /\ s2         = S2Idle
  /\ proc       = ProcIdle
  /\ hasher     = NoCollisions
  /\ reply      = NoReply

Become(g) ==
  /\ node_count' = g.node_count
  /\ node_infos' = g.node_infos
  /\ node_ids'   = g.node_ids
  /\ contexts'   = g.contexts
  /\ steps'      = steps + 1

WriteCreateContextIn(Ctxs) ==
  /\ steps < MaxOps
  /\ \E context \in Ctxs :
       /\ Become(write_create_context(St, context))
       /\ last' = Cmd("write_create_context", context, NoArg, NoArg, 0)
  /\ UNCHANGED <<s2, proc, hasher, reply>>

WritePutEdgeIn(Ctxs) ==
  /\ steps < MaxOps
  /\ \E context \in Ctxs, p \in PutPairs, amount \in Amounts :
       /\ Become(write_put_edge(St, context, p[1], p[2], amount))
       /\ last' = Cmd("write_put_edge", context, p[1], p[2], amount)
  /\ UNCHANGED <<s2, proc, hasher, reply>>

WriteDeleteEdgeIn(Ctxs) ==
  /\ steps < MaxOps
  /\ \E context \in Ctxs, p \in PutPairs :
       /\ Become(write_delete_edge(St, context, p[1], p[2]))
       /\ last' = Cmd("write_delete_edge", context, p[1], p[2], 0)
  /\ UNCHANGED <<s2, proc, hasher, reply>>

WriteDeleteNodeIn(Ctxs) ==
  /\ steps < MaxOps
  /\ \E context \in Ctxs, node \in DeleteNodes :
       /\ Become(write_delete_node(St, context, node))
       /\ last' = Cmd("write_delete_node", context, node, NoArg, 0)
  /\ UNCHANGED <<s2, proc, hasher, reply>>

WriteCreateContext == WriteCreateContextIn(ContextNames)
WritePutEdge       == WritePutEdgeIn(ContextNames)
WriteDeleteEdge    == WriteDeleteEdgeIn(ContextNames)
WriteDeleteNode    == WriteDeleteNodeIn(ContextNames)

WriteReset ==
  /\ steps < MaxOps
  /\ Become(write_reset(St))
  /\ last' = Cmd("write_reset", NoArg, NoArg, NoArg, 0)
  /\ UNCHANGED <<s2, proc, hasher, reply>>

ReadNodeScore ==
  /\ steps < MaxOps
  /\ \E context \in ContextNames, ego \in Egos, target \in Targets :
       /\ Become(read_node_score(St, context, ego, target))
       /\ last' = Cmd("read_node_score", context, ego, target, 0)
  /\ UNCHANGED <<s2, proc, hasher, reply>>

Next ==
  \/ WriteCreateContext
  \/ WritePutEdge
  \/ WriteDeleteEdge
  \/ WriteDeleteNode
  \/ WriteReset
  \/ ReadNodeScore

Spec == Init /\ [][Next]_vars

\* The writes of the composer alone, all of them naming a non-null context.
PutEdgeNamed    == WritePutEdgeIn(NamedContexts)
DeleteEdgeNamed == WriteDeleteEdgeIn(NamedContexts)
DeleteNodeNamed == WriteDeleteNodeIn(NamedContexts)

NextNamed ==
  \/ PutEdgeNamed
  \/ DeleteEdgeNamed
  \/ DeleteNodeNamed

SpecNamed == Init /\ [][NextNamed]_vars

\* ------------------------------------------------------------------
\*  Reading the state
\* ------------------------------------------------------------------

\* weight of the edge e = <<src id, dst id>> in a context; an absent edge, and
\* every edge of a context that does not exist, counts as 0
Weight(context, e) ==
  IF context \in DOMAIN contexts THEN contexts[context].w[e] ELSE 0

RECURSIVE SumOver(_, _)
SumOver(S, e) ==
  IF S = {} THEN 0
  ELSE LET c == CHOOSE x \in S : TRUE
       IN  Weight(c, e) + SumOver(S \ {c}, e)

\* sum of the edge's weights over the non-null contexts
SumOfContexts(e) == SumOver((DOMAIN contexts) \ {NullContext}, e)

KindOfId(id) == node_info_from_id(St, id).kind

IsWrite(op) ==
  op \in {"write_put_edge", "write_delete_edge", "write_delete_node"}

\* ------------------------------------------------------------------
\*  C1  composition
\* ------------------------------------------------------------------

\* C1 as stated: after any sequence of set_edge / write_put_edge /
\* write_delete_edge / write_delete_node calls, for every pair (src, dst) the
\* null-context weight equals the sum of the pair's weights over the non-null
\* contexts.
C1_CompositionAllPairs ==
  \A e \in Pairs : Weight(NullContext, e) = SumOfContexts(e)

\* C1 amended: after any sequence of such calls that all name a non-null
\* context, the null-context weight of every pair whose source is not a User
\* node equals the sum of the pair's weights over the non-null contexts.
C1_CompositionNonUser ==
  \A e \in Pairs :
    KindOfId(e[1]) # "User" => Weight(NullContext, e) = SumOfContexts(e)

\* Two non-null contexts hold different non-zero weights for a Comment's edge
\* and the null context holds their sum.
C1_Witness ==
  /\ IsWrite(last.op)
  /\ \E e \in Pairs :
       /\ KindOfId(e[1]) = "Comment"
       /\ Weight(CtxX, e) # 0 /\ Weight(CtxY, e) # 0
       /\ Weight(CtxX, e) # Weight(CtxY, e)
       /\ Weight(NullContext, e) = Weight(CtxX, e) + Weight(CtxY, e)

\* ------------------------------------------------------------------
\*  C2  cross-context user broadcast
\* ------------------------------------------------------------------

IdOf(name) == node_ids[name]

\* the edge the last command names, as a pair of ids
LastEdge == <<IdOf(last.src), IdOf(last.dst)>>

\* C2: immediately after write_put_edge(C, U, X, w) with U a User node, every
\* context that exists, the null context and C included, holds
\* weight(U, X) = w.
C2_UserBroadcast ==
  (last.op = "write_put_edge" /\ kind_from_name(last.src) = "User") =>
     /\ NullContext \in DOMAIN contexts
     /\ last.context \in DOMAIN contexts
     /\ \A c \in DOMAIN contexts : contexts[c].w[LastEdge] = last.amount

\* A User edge has just been put in X while the null context and Y exist too.
C2_Witness ==
  /\ last.op = "write_put_edge" /\ kind_from_name(last.src) = "User"
  /\ last.context = CtxX
  /\ DOMAIN contexts = {NullContext, CtxX, CtxY}
  /\ contexts[CtxY].w[LastEdge] = last.amount
  /\ \E e \in Pairs : KindOfId(e[1]) = "Comment" /\ Weight(CtxY, e) # 0

\* ------------------------------------------------------------------
\*  C3  end-to-end scenario S2
\* ------------------------------------------------------------------

\* The scenario's inputs: the edge, the two contexts, the two weights
\* (1.0 and 0.5 of the scenario are 2 and 1 here).
S2Pairs   == {<<U1, U2>>, <<C1, U1>>, <<B1, U2>>, <<N1, U1>>}
S2Amounts == {-1, 1, 2}

InitS2 ==
  /\ node_count = AugMultiGraph_new.node_count
  /\ node_infos = AugMultiGraph_new.node_infos
  /\ node_ids   = AugMultiGraph_new.node_ids
  /\ contexts   = AugMultiGraph_new.contexts
  /\ last       = [op |-> "new", context |-> NoArg, src |-> NoArg,
                    dst |-> NoArg, amount |-> 0, rel |-> "none",
                    pre |-> NoPre]
  /\ steps      = 0
  /\ reply      = NoReply
  /\ proc       = ProcIdle
  /\ hasher     = NoCollisions
  /\ \E p \in S2Pairs, x \in NamedContexts, y \in NamedContexts,
         w1 \in S2Amounts, w2 \in S2Amounts :
       /\ x # y
       /\ s2 = [pc |-> "start", src |-> p[1], dst |-> p[2],
                X |-> x, Y |-> y, w1 |-> w1, w2 |-> w2]

\* put the edge with weight w1 in context X
S2PutX ==
  /\ s2.pc = "start"
  /\ Become(write_put_edge(St, s2.X, s2.src, s2.dst, s2.w1))
  /\ last' = Cmd("write_put_edge", s2.X, s2.src, s2.dst, s2.w1)
  /\ s2' = [s2 EXCEPT !.pc = "put_x"]
  /\ UNCHANGED <<proc, hasher, reply>>

\* put the same edge with weight w2 in context Y
S2PutY ==
  /\ s2.pc = "put_x"
  /\ Become(write_put_edge(St, s2.Y, s2.src, s2.dst, s2.w2))
  /\ last' = Cmd("write_put_edge", s2.Y, s2.src, s2.dst, s2.w2)
  /\ s2' = [s2 EXCEPT !.pc = "put_y"]
  /\ UNCHANGED <<proc, hasher, reply>>

\* delete the edge in context X
S2DeleteX ==
  /\ s2.pc = "put_y"
  /\ Become(write_delete_edge(St, s2.X, s2.src, s2.dst))
  /\ last' = Cmd("write_delete_edge", s2.X, s2.src, s2.dst, 0)
  /\ s2' = [s2 EXCEPT !.pc = "deleted"]
  /\ UNCHANGED <<proc, hasher, reply>>

NextS2 ==
  \/ S2PutX
  \/ S2PutY
  \/ S2DeleteX

SpecS2 == InitS2 /\ [][NextS2]_vars

S2NullWeight == Weight(NullContext, <<IdOf(s2.src), IdOf(s2.dst)>>)

\* the null weight the scenario expects: w1, then w1 + w2, then w2
S2Expected ==
  /\ s2.pc = "put_x"   => S2NullWeight = s2.w1
  /\ s2.pc = "put_y"   => S2NullWeight = s2.w1 + s2.w2
  /\ s2.pc = "deleted" => S2NullWeight = s2.w2

C4_CreateContextIdempotent ==
  [][(last'.op = "write_create_context" /\ last'.context \in DOMAIN contexts)
       => contexts' = contexts]_vars

\* ------------------------------------------------------------------
\*  C5  seeding of a new context
\* ------------------------------------------------------------------

\* the step creates the non-null context c: by write_create_context, or by
\* the first use of c in a write
Creates(c) ==
  /\ c \in DOMAIN contexts'
  /\ \/ c \notin DOMAIN contexts
     \/ last'.op = "write_create_context" /\ last'.context = c

\* the step is a put, in c, of the edge e with a source that is not a User
\* node: the one edge the command itself writes into c after creating it
PutsNonUserEdge(c, e) ==
  /\ last'.op = "write_put_edge"
  /\ last'.context = c
  /\ kind_from_name(last'.src) # "User"
  /\ e = <<node_ids'[last'.src], node_ids'[last'.dst]>>

\* C5: when a non-null context is created (by write_create_context or by
\* first use in a write) while the null context exists, the new context holds
\* exactly the null context's edges whose source is a User node, with the
\* same weights, and no edge whose source is a Comment, Beacon or Unknown
\* node (the edge the creating put itself goes on to write set aside).
C5_NewContextSeeded ==
  [][\A c \in NamedContexts :
       (NullContext \in DOMAIN contexts /\ Creates(c)) =>
          \A e \in Pairs :
             \/ PutsNonUserEdge(c, e)
             \/ contexts'[c].w[e] =
                  IF node_info_from_id(St, e[1])'.kind = "User"
                  THEN contexts'[NullContext].w[e] ELSE 0]_vars

\* X has just been created while the null context held an edge of a User and
\* an edge of a Comment: X holds the first and not the second.
C5_Witness ==
  /\ last.op = "write_create_context"
  /\ last.context = CtxX
  /\ \E e1 \in Pairs, e2 \in Pairs :
       /\ KindOfId(e1[1]) = "User" /\ KindOfId(e2[1]) = "Comment"
       /\ Weight(NullContext, e1) # 0 /\ Weight(NullContext, e2) # 0
       /\ Weight(CtxX, e1) = Weight(NullContext, e1)
       /\ Weight(CtxX, e2) = 0

\* ------------------------------------------------------------------
\*  C6  node id stability
\* ------------------------------------------------------------------

\* over one step: every registered name keeps its id (a later lookup by
\* find_or_add_node_by_name returns it), no two names share an id, and the
\* number of registered nodes does not decrease
RegistryStable ==
  /\ \A n \in DOMAIN node_ids :
        /\ n \in DOMAIN node_ids'
        /\ node_ids'[n] = node_ids[n]
        /\ NodeIdOf(St, n)' = node_ids[n]
  /\ \A n \in DOMAIN node_ids', m \in DOMAIN node_ids' :
        node_ids'[n] = node_ids'[m] => n = m
  /\ node_count' >= node_count
  /\ Cardinality(DOMAIN node_ids') >= Cardinality(DOMAIN node_ids)

\* C6 as stated: once a name has id i, every later lookup returns i, no other
\* name ever maps to i and the number of registered nodes never decreases,
\* whatever operations run in between.
C6_NodeIdsStableAlways == [][RegistryStable]_vars

\* C6 amended: the same, whatever operations other than write_reset run in
\* between (write_delete_node included).
C6_NodeIdsStableUntilReset ==
  [][last'.op # "write_reset" => RegistryStable]_vars

\* write_delete_node has just deleted a User node that had been given id 0
\* and whose edge had been written: the name is still registered with id 0,
\* next to the other nodes.
C6_Witness ==
  /\ last.op = "write_delete_node"
  /\ last.src = U1
  /\ U1 \in DOMAIN node_ids
  /\ node_ids[U1] = 0
  /\ NodeIdOf(St, U1) = 0
  /\ node_count >= 2
  /\ \A c \in DOMAIN contexts : \A d \in IdSpace : contexts[c].w[<<0, d>>] = 0

\* ------------------------------------------------------------------
\*  C7  put twice
\* ------------------------------------------------------------------

\* C7: write_put_edge(C, S, D, w) applied twice in a row leaves the weight of
\* every edge, (S, D) included, in every context, the null context included,
\* equal to its value after the first call, for every kind of S and every
\* context C.
C7_PutTwice ==
  [][(last'.op = "write_put_edge" /\ last'.rel = "same") =>
       /\ DOMAIN contexts' = DOMAIN contexts
       /\ \A c \in DOMAIN contexts : contexts'[c].w = contexts[c].w]_vars

\* The same put of a Comment's edge in X has just run twice, while Y holds
\* another weight for the edge: the null context holds the sum.
C7_Witness ==
  /\ last.op = "write_put_edge"
  /\ last.rel = "same"
  /\ last.context = CtxX
  /\ kind_from_name(last.src) = "Comment"
  /\ Weight(CtxX, LastEdge) = last.amount
  /\ Weight(CtxY, LastEdge) # 0
  /\ Weight(NullContext, LastEdge) = last.amount + Weight(CtxY, LastEdge)

\* ------------------------------------------------------------------
\*  C8  put, then delete
\* ------------------------------------------------------------------

\* the last two commands were write_put_edge(C, S, D, w) and
\* write_delete_edge(C, S, D)
PutThenDelete == last.op = "write_delete_edge" /\ last.rel = "undo"

\* C8 as stated: write_put_edge(C, S, D, w) followed by
\* write_delete_edge(C, S, D) leaves C's weight for (S, D) at 0 and, for a
\* non-User S, leaves the null context's weight for (S, D) equal to what it
\* was before the put, whatever weight C and null held beforehand.
C8_PutDeleteRestoresNull ==
  PutThenDelete =>
     /\ Weight(last.context, LastEdge) = 0
     /\ kind_from_name(last.src) # "User" =>
          Weight(NullContext, LastEdge) = last.pre[1]

\* C8 amended: the pair leaves C's weight for (S, D) at 0 and, for a non-User
\* S, leaves the null context's weight equal to what it was before the put
\* less the weight C held for (S, D) before the put: it is the weight before
\* the put exactly when C held no such edge.
C8_PutDeleteTakesOldWeightOff ==
  PutThenDelete =>
     /\ Weight(last.context, LastEdge) = 0
     /\ kind_from_name(last.src) # "User" =>
          Weight(NullContext, LastEdge) = last.pre[1] - last.pre[2]

\* A Comment's edge has been put in X and deleted there while X held a weight
\* for it before and Y holds one still: the null context is left with Y's.
C8_Witness ==
  /\ PutThenDelete
  /\ last.context = CtxX
  /\ kind_from_name(last.src) = "Comment"
  /\ last.pre[2] # 0
  /\ Weight(CtxY, LastEdge) # 0
  /\ Weight(CtxX, LastEdge) = 0
  /\ Weight(NullContext, LastEdge) = Weight(CtxY, LastEdge)
  /\ Weight(NullContext, LastEdge) # last.pre[1]

\* ------------------------------------------------------------------
\*  C9  write_delete_edge with an unknown endpoint
\* ------------------------------------------------------------------

\* C9: write_delete_edge(C, S, D) where S or D is not a registered node name
\* is a no-op: no node is added, no context is created and no edge weight in
\* any context changes.
C9_DeleteUnknownIsNoOp ==
  [][(/\ last'.op = "write_delete_edge"
      /\ (last'.src \notin DOMAIN node_ids \/ last'.dst \notin DOMAIN node_ids))
       => UNCHANGED <<node_count, node_infos, node_ids, contexts>>]_vars

\* write_delete_edge has just been asked, in a context that does not exist,
\* for an edge from a registered node to a name that is not registered, while
\* another context holds edges: the name and the context are still not there.
C9_Witness ==
  /\ last.op = "write_delete_edge"
  /\ last.src \in DOMAIN node_ids
  /\ last.dst \notin DOMAIN node_ids
  /\ last.context \notin DOMAIN contexts
  /\ \E c \in DOMAIN contexts : \E e \in Pairs : contexts[c].w[e] # 0

\* ------------------------------------------------------------------
\*  C10  write_delete_node
\* ------------------------------------------------------------------

\* C10: after write_delete_node(C, N) for a registered node N, N has no
\* outgoing edge left in context C, N is still registered with the same id,
\* name and kind, and every edge pointing to N, in every context, is
\* unchanged.
C10_DeleteNode ==
  [][(last'.op = "write_delete_node" /\ last'.src \in DOMAIN node_ids) =>
       LET N  == last'.src
           C  == last'.context
           id == node_ids[N]
       IN  /\ C \in DOMAIN contexts'
           /\ \A d \in IdSpace : contexts'[C].w[<<id, d>>] = 0
           /\ N \in DOMAIN node_ids'
           /\ node_ids'[N] = id
           /\ node_infos'[id + 1] = node_infos[id + 1]
           /\ node_infos'[id + 1].name = N
           /\ node_infos'[id + 1].kind = kind_from_name(N)
           /\ \A c \in DOMAIN contexts : \A s \in IdSpace :
                 /\ c \in DOMAIN contexts'
                 /\ contexts'[c].w[<<s, id>>] = contexts[c].w[<<s, id>>]]_vars

\* write_delete_node has just deleted, in X, a Comment that had two outgoing
\* edges there and an edge pointing to it: the outgoing edges are gone, the
\* edge pointing to it is there.
C10_Witness ==
  /\ last.op = "write_delete_node"
  /\ last.context = CtxX
  /\ last.src = C1
  /\ last.pre[1] = 2
  /\ C1 \in DOMAIN node_ids
  /\ OutDegree(CtxX, C1) = 0
  /\ \E s \in IdSpace : Weight(CtxX, <<s, node_ids[C1]>>) # 0

\* ------------------------------------------------------------------
\*  C14  the recovery of get_score_or_recalculate and
\*       get_ranks_or_recalculate, over what the estimator answers
\* ------------------------------------------------------------------

\* what a lookup that answers Ok returns: a score, a ranking
LookupScores == {-1, 1, 2}
LookupRanks  == {<< <<0, 2>> >>, << <<1, 1>>, <<0, -1>> >>}

Asked(fn, first, calc, retry, answer) ==
  [op |-> "asked", fn |-> fn, first |-> first, calc |-> calc, retry |-> retry,
   answer |-> answer]

\* The estimator's answers are drawn; the graph is as constructed.
InitRecalc ==
  /\ node_count = AugMultiGraph_new.node_count
  /\ node_infos = AugMultiGraph_new.node_infos
  /\ node_ids   = AugMultiGraph_new.node_ids
  /\ contexts   = AugMultiGraph_new.contexts
  /\ last       = [op |-> "new", context |-> NoArg, src |-> NoArg,
                    dst |-> NoArg, amount |-> 0, rel |-> "none",
                    pre |-> NoPre]
  /\ steps      = 0
  /\ s2         = S2Idle
  /\ proc       = ProcIdle
  /\ hasher     = NoCollisions
  /\ \E first \in Outcomes, calc \in Outcomes, retry \in Outcomes :
       \/ \E score \in LookupScores :
            reply = Asked("get_score_or_recalculate", first, calc, retry, score)
       \/ \E ranks \in LookupRanks :
            reply = Asked("get_ranks_or_recalculate", first, calc, retry, ranks)

Answered(r) ==
  [op |-> "answered", fn |-> reply.fn, first |-> reply.first,
   calc |-> reply.calc, retry |-> reply.retry, answer |-> reply.answer,
   value |-> r.value, calls |-> r.calls, lookups |-> r.lookups]

GetScoreOrRecalculate ==
  /\ reply.op = "asked"
  /\ reply.fn = "get_score_or_recalculate"
  /\ reply' = Answered(score_or_recalculate(reply.first, reply.calc,
                                            reply.retry, reply.answer))
  /\ UNCHANGED <<node_count, node_infos, node_ids, contexts, last, steps, s2, proc, hasher>>

GetRanksOrRecalculate ==
  /\ reply.op = "asked"
  /\ reply.fn = "get_ranks_or_recalculate"
  /\ reply' = Answered(ranks_or_recalculate(reply.first, reply.calc,
                                            reply.retry, reply.answer))
  /\ UNCHANGED <<node_count, node_infos, node_ids, contexts, last, steps, s2, proc, hasher>>

NextRecalc ==
  \/ GetScoreOrRecalculate
  \/ GetRanksOrRecalculate

SpecRecalc == InitRecalc /\ [][NextRecalc]_vars

\* the 0 / the empty list of the function asked
ZeroOf(fn) == IF fn = "get_score_or_recalculate" THEN 0 ELSE <<>>

ScoresPairs    == {<<C1, U1>>, <<B1, U1>>}
ScoresContexts == {NullContext, CtxX}

\* The rankings the estimator may answer: node 0 with score 1, node 1 with
\* score -2, node 2 with score 2, each present or not, in the order of the
\* ids (so not sorted, and with two scores of the same magnitude).
RankScores == <<1, -2, 2>>

RECURSIVE RankingOf(_, _)
RankingOf(present, id) ==
  IF id \notin IdSpace \/ id + 1 > Len(RankScores) THEN <<>>
  ELSE (IF id \in present THEN << <<id, RankScores[id + 1]>> >> ELSE <<>>)
         \o RankingOf(present, id + 1)

Rankings    == {RankingOf(present, 0) : present \in SUBSET IdSpace}
FullRanking == RankingOf(IdSpace, 0)

\* The queries asked: pages of the unfiltered list; kind filters with and
\* without hide_personal; score windows.
PageQueries ==
  [kind_str : {""}, hide_personal : {FALSE},
   score_lt : {3}, score_lte : {FALSE}, score_gt : {-3}, score_gte : {FALSE},
   index : 0 .. 2, count : 0 .. 3, ranks : Rankings]
KindQueries ==
  [kind_str : {"", "U", "B", "C", "X"}, hide_personal : BOOLEAN,
   score_lt : {3}, score_lte : {FALSE}, score_gt : {-3}, score_gte : {FALSE},
   index : {0}, count : {3}, ranks : {FullRanking}]
WindowQueries ==
  [kind_str : {""}, hide_personal : {FALSE},
   score_lt : {2}, score_lte : BOOLEAN, score_gt : {1}, score_gte : BOOLEAN,
   index : {0}, count : {3}, ranks : {FullRanking}]
ScoresQueries == PageQueries \cup KindQueries \cup WindowQueries

ScoresPutEdge ==
  /\ steps < MaxOps
  /\ \E context \in ScoresContexts, p \in ScoresPairs :
       /\ Become(write_put_edge(St, context, p[1], p[2], 2))
       /\ last' = Cmd("write_put_edge", context, p[1], p[2], 2)
  /\ UNCHANGED <<s2, proc, hasher, reply>>

ReadScores ==
  /\ steps < MaxOps
  /\ \E context \in {CtxX}, q \in ScoresQueries :
       /\ \A k \in 1 .. Len(q.ranks) : q.ranks[k][1] < node_count
       /\ Become(read_scores(St, context, U1, q.kind_str))
       /\ last' = Cmd("read_scores", context, U1, NoArg, 0)
       /\ reply' =
            [op |-> "read_scores", context |-> context, ego |-> U1, q |-> q,
             known |-> /\ q.kind_str \in KindStrings
                       /\ context \in DOMAIN contexts
                       /\ node_exists(St, U1),
             im |-> IF /\ q.kind_str \in KindStrings
                       /\ context \in DOMAIN contexts
                       /\ node_exists(St, U1)
                    THEN read_scores_im(St, context, U1, q)
                    ELSE <<>>,
             rows |-> read_scores_rows(St, context, U1, q)]
  /\ UNCHANGED <<s2, proc, hasher>>

NextScores ==
  \/ ScoresPutEdge
  \/ ReadScores

SpecScores == Init /\ [][NextScores]_vars

\* the rows of a list of (target id, score), as read_scores returns them
RowsOf(ego, im) ==
  [k \in 1 .. Len(im) |-> <<ego, node_info_from_id(St, im[k][1]).name, im[k][2]>>]

\* positions index, index+1, ..., index+count-1 of a list, fewer when the
\* list ends earlier
Slice(im, index, count) ==
  LET end == IF index + count < Len(im) THEN index + count ELSE Len(im)
  IN  IF index >= end THEN <<>>
      ELSE [k \in 1 .. (end - index) |-> im[index + k]]

\* C16: read_scores returns exactly the rows at positions index, index+1, ...,
\* index+count-1 of the filtered list sorted by |score| descending (fewer only
\* when the list ends earlier), for every index and every count.
C16_PageIsIndexToIndexPlusCount ==
  reply.op = "read_scores" =>
    reply.rows = RowsOf(reply.ego, Slice(reply.im, reply.q.index, reply.q.count))

\* C17: read_scores returns an empty list when count = 0, an empty list when
\* index is at least the number of filtered rows, and never more than count
\* rows.
C17_PageBounds ==
  reply.op = "read_scores" =>
    /\ reply.q.count = 0 => reply.rows = <<>>
    /\ reply.q.index >= Len(reply.im) => reply.rows = <<>>
    /\ Len(reply.rows) <= reply.q.count

\* a query with three filtered rows and count = 2 that returns two rows
C17_Witness ==
  /\ reply.op = "read_scores"
  /\ Len(reply.im) = 3
  /\ reply.q.index = 0
  /\ reply.q.count = 2
  /\ Len(reply.rows) = 2

\* what the claim C18 says of one ranked target n with score w, read off the
\* registry and the edges of the context
KindLetter(kind) ==
  CASE kind = "User" -> "U" [] kind = "Beacon" -> "B"
    [] kind = "Comment" -> "C" [] OTHER -> "?"

ShouldKeep(q, context, ego, n, w) ==
  LET target_kind == node_infos[n + 1].kind
  IN  /\ q.kind_str = "" \/ q.kind_str = KindLetter(target_kind)
      /\ w > q.score_gt \/ (q.score_gte /\ w = q.score_gt)
      /\ w < q.score_lt \/ (q.score_lte /\ w = q.score_lt)
      /\ \/ ~q.hide_personal
         \/ target_kind \notin {"Comment", "Beacon"}
         \/ contexts[context].w[<<n, node_ids[ego]>>] = 0

\* C18: read_scores keeps a ranked target exactly when the kind filter is
\* empty or equals its kind, its score is within the window of score_gt /
\* score_lt (weakly when score_gte / score_lte), and hide_personal is off, or
\* the target is neither Comment nor Beacon, or the context has no edge
\* target -> ego; the kept rows come out ordered by |score| descending.
C18_FilterAndOrder ==
  (last.op = "read_scores" /\ reply.known) =>
    /\ \A k \in 1 .. Len(reply.q.ranks) :
         LET r == reply.q.ranks[k]
         IN  (\E j \in 1 .. Len(reply.im) : reply.im[j] = r)
               <=> ShouldKeep(reply.q, reply.context, reply.ego, r[1], r[2])
    /\ \A j \in 1 .. Len(reply.im) :
         \E k \in 1 .. Len(reply.q.ranks) : reply.q.ranks[k] = reply.im[j]
    /\ \A j \in 1 .. Len(reply.im) - 1 :
         Abs(reply.im[j][2]) >= Abs(reply.im[j + 1][2])
    /\ (reply.q.index = 0 /\ reply.q.count >= Len(reply.im)) =>
         reply.rows = RowsOf(reply.ego, reply.im)

\* a query with hide_personal that drops a Comment with an edge to the ego,
\* keeps the other two targets and puts the score -2 before the score 1
C18_Witness ==
  /\ last.op = "read_scores"
  /\ reply.known
  /\ reply.q.hide_personal
  /\ reply.q.kind_str = ""
  /\ Len(reply.q.ranks) = 3
  /\ Len(reply.im) = 2
  /\ Abs(reply.im[1][2]) > Abs(reply.im[2][2])
  /\ reply.q.ranks[1][2] = reply.im[2][2]

\* ------------------------------------------------------------------
\*  read_graph over small graphs (C19, C20)
\* ------------------------------------------------------------------

\* The edges written before the queries, all in the null context: the focus
\* U1, a Comment C1 between it and the User U2, the direct edge, the edge
\* back from U2 and the edge back from C1.
GraphPairs   == {<<U1, C1>>, <<C1, U2>>, <<U1, U2>>, <<U2, U1>>, <<C1, U1>>}
GraphAmounts == {-1, 2}
GraphEgos    == {U1, U2}
GraphFocus   == U1

\* The estimator's scores for the ego: all negative, or all positive.
GraphScores == {[id \in IdSpace |-> s] : s \in {-1, 1}}

\* The paths the search can leave (crate::astar, over positive edges): a
\* path from ego to focus when there is one; otherwise nothing, or a path
\* from ego to some node the search closed.
PositivePaths(graph, ego_id) ==
  {p \in UNION {[1 .. n -> IdSpace] : n \in 1 .. MaxNodes} :
     /\ p[1] = ego_id
     /\ \A i \in 1 .. Len(p) : contains_node(graph, p[i])
     /\ \A i, j \in 1 .. Len(p) : i # j => p[i] # p[j]
     /\ \A i \in 1 .. Len(p) - 1 : graph.w[<<p[i], p[i + 1]>>] > 0}

PathsLeft(graph, ego_id, focus_id) ==
  LET found == {p \in PositivePaths(graph, ego_id) : p[Len(p)] = focus_id}
  IN  IF found # {} THEN found
      ELSE PositivePaths(graph, ego_id) \cup {<<>>}

GraphPutEdge ==
  /\ steps < MaxOps
  /\ \E p \in GraphPairs, amount \in GraphAmounts :
       /\ Become(write_put_edge(St, NullContext, p[1], p[2], amount))
       /\ last' = Cmd("write_put_edge", NullContext, p[1], p[2], amount)
  /\ UNCHANGED <<s2, proc, hasher, reply>>

ReadGraph ==
  /\ steps < MaxOps
  /\ \E ego \in GraphEgos, positive_only \in BOOLEAN, scores \in GraphScores :
       LET known == /\ NullContext \in DOMAIN contexts
                    /\ node_exists(St, ego)
                    /\ node_exists(St, GraphFocus)
           paths == IF known /\ ego # GraphFocus
                    THEN PathsLeft(contexts[NullContext], node_ids[ego],
                                   node_ids[GraphFocus])
                    ELSE {<<>>}
       IN  \E ego_to_focus \in paths :
             LET q == [positive_only |-> positive_only, index |-> 0,
                       count |-> MaxNodes * MaxNodes, scores |-> scores,
                       ego_to_focus |-> ego_to_focus]
                 r == read_graph_result(St, NullContext, ego, GraphFocus, q)
             IN  /\ Become(read_graph(St, NullContext, ego, GraphFocus, positive_only))
                 /\ last' = Cmd("read_graph", NullContext, ego, GraphFocus, 0)
                 /\ reply' = [op |-> "read_graph", context |-> NullContext,
                              ego |-> ego, focus |-> GraphFocus, q |-> q,
                              known |-> known, panic |-> r.panic,
                              added |-> r.added, rows |-> r.rows]
  /\ UNCHANGED <<s2, proc, hasher>>

NextGraph ==
  \/ GraphPutEdge
  \/ ReadGraph

SpecGraph == Init /\ [][NextGraph]_vars

\* C19: read_graph with positive_only = true never returns an edge whose
\* weight is zero or negative, whether it is a direct focus -> User edge, a
\* contracted edge through a Comment/Beacon or an edge of the ego-to-focus
\* path.
C19_PositiveOnly ==
  (reply.op = "read_graph" /\ reply.q.positive_only) =>
    \A k \in 1 .. Len(reply.rows) : reply.rows[k][3][1] > 0

\* the chain focus -> d -> n of the claim C20 in the context of the last
\* read_graph: d a Comment or Beacon, n a User other than focus, both
\* weights negative, and no direct edge focus -> n
NegativeChain(d, n) ==
  LET graph == contexts[reply.context]
      f     == node_ids[reply.focus]
  IN  /\ last.op = "read_graph" /\ reply.known /\ ~reply.panic
      /\ ~reply.q.positive_only
      /\ d < node_count /\ n < node_count /\ n # f
      /\ node_infos[d + 1].kind \in {"Comment", "Beacon"}
      /\ node_infos[n + 1].kind = "User"
      /\ graph.w[<<f, d>>] < 0 /\ graph.w[<<d, n>>] < 0
      /\ graph.w[<<f, n>>] = 0
      /\ \A e \in IdSpace \ {d} :
           ~(/\ e < node_count
             /\ node_infos[e + 1].kind \in {"Comment", "Beacon"}
             /\ graph.w[<<f, e>>] # 0 /\ graph.w[<<e, n>>] # 0)

\* the product of the magnitudes of the two normalised weights of the chain
ChainMagnitude(d, n) ==
  LET graph == contexts[reply.context]
      f     == node_ids[reply.focus]
  IN  <<Abs(graph.w[<<f, d>>]) * Abs(graph.w[<<d, n>>]),
        pos_sum_or_one(graph, f) * pos_sum_or_one(graph, d)>>

\* the row focus -> n of the last read_graph has the weight sign * m
ChainRow(n, sign, m) ==
  \E k \in 1 .. Len(reply.rows) :
    /\ reply.rows[k][1] = reply.focus
    /\ reply.rows[k][2] = node_infos[n + 1].name
    /\ reply.rows[k][3][2] > 0
    /\ reply.rows[k][3][1] * m[2] = sign * m[1] * reply.rows[k][3][2]

\* C20: for a chain focus -> d -> n through a Comment or Beacon d in which
\* both weights are negative, read_graph (positive_only = false) reports the
\* contracted edge focus -> n with a positive weight equal to the product of
\* the two magnitudes.
C20_DoubleNegativeIsPositive ==
  \A d, n \in IdSpace :
    NegativeChain(d, n) => ChainRow(n, 1, ChainMagnitude(d, n))

\* C20 (as the code has it): the contracted edge focus -> n of such a chain
\* is reported with a negative weight whose magnitude is the product of the
\* two magnitudes.
C20_DoubleNegativeStaysNegative ==
  \A d, n \in IdSpace :
    NegativeChain(d, n) => ChainRow(n, -1, ChainMagnitude(d, n))

\* a read_graph over such a chain whose second weight is normalised
C20_Witness ==
  \E d, n \in IdSpace :
    /\ NegativeChain(d, n)
    /\ ChainMagnitude(d, n)[2] > 1
    /\ ChainRow(n, -1, ChainMagnitude(d, n))

\* ------------------------------------------------------------------
\*  All the queries, between writes (C11, C12, C13, C15)
\* ------------------------------------------------------------------

\* The writes: edges from the User U1 to the Beacon B1 and to the User U2, in
\* the null context or in X; marks of U1.  The queries name the same
\* contexts (X may not exist), U1, and C1, which is never registered.
ReadsContexts == {NullContext, CtxX}
ReadsPairs    == {<<U1, B1>>, <<U1, U2>>}
ReadsEgos     == {U1, C1}
ReadsTargets  == {B1, C1}
ReadsEstimates == {[id \in IdSpace |-> s] : s \in {-1, 1}}

ReadOps ==
  {"read_node_score", "read_scores", "read_graph", "read_connected",
   "read_edges", "read_mutual_scores", "read_unmarked_beacons", "read_node_list"}

\* the ranking that gives every registered node the score 1
RankingAll(n) == [k \in 1 .. n |-> <<k - 1, 1>>]

\* the (context, ego name) whose walks are materialised in g2 and not in g
NewWalks(g, g2) ==
  {<<c, g2.node_infos[e + 1].name>> :
     <<c, e>> \in {x \in (DOMAIN g2.contexts) \X IdSpace :
                     /\ x[2] \in g2.contexts[x[1]].walks
                     /\ ~(x[1] \in DOMAIN g.contexts /\ x[2] \in g.contexts[x[1]].walks)}}

\* the (context, ego name) whose walks a query has materialised so far
Seen == IF "seen" \in DOMAIN reply THEN reply.seen ELSE {}

\* A query: the state becomes g2, and what it named and returned is recorded
Query(op, context, ego, target, known, rows, panic, g2) ==
  /\ Become(g2)
  /\ last' = Cmd(op, context, ego, target, 0)
  /\ reply' = [op |-> op, context |-> context, ego |-> ego, target |-> target,
               known |-> known, rows |-> rows, panic |-> panic,
               calculated |-> NewWalks(St, g2),
               again |-> NewWalks(St, g2) \cap Seen,
               seen |-> Seen \cup NewWalks(St, g2)]
  /\ UNCHANGED <<s2, proc, hasher>>

Known(context, names) ==
  /\ context \in DOMAIN contexts
  /\ \A n \in names : node_exists(St, n)

ReadsPutEdge ==
  /\ steps < MaxOps
  /\ \E context \in ReadsContexts, p \in ReadsPairs :
       /\ Become(write_put_edge(St, context, p[1], p[2], 1))
       /\ last' = Cmd("write_put_edge", context, p[1], p[2], 1)
  /\ UNCHANGED <<s2, proc, hasher, reply>>

ReadsCreateContext == WriteCreateContextIn(ReadsContexts)

ReadsMarkBeacons ==
  /\ steps < MaxOps
  /\ \E context \in ReadsContexts, scores \in ReadsEstimates :
       /\ Become(write_mark_beacons(St, context, U1, scores))
       /\ last' = Cmd("write_mark_beacons", context, U1, NoArg, 0)
  /\ UNCHANGED <<s2, proc, hasher, reply>>

ReadsNodeScore ==
  /\ steps < MaxOps
  /\ \E context \in ReadsContexts, ego \in ReadsEgos, target \in ReadsTargets :
       Query("read_node_score", context, ego, target,
             Known(context, {ego, target}),
             read_node_score_rows(St, context, ego, target, 1), FALSE,
             read_node_score(St, context, ego, target))

ReadsScores ==
  /\ steps < MaxOps
  /\ \E context \in ReadsContexts, ego \in ReadsEgos, kind_str \in {"", "B"} :
       LET q == [kind_str |-> kind_str, hide_personal |-> FALSE,
                 score_lt |-> 2, score_lte |-> FALSE,
                 score_gt |-> 0, score_gte |-> FALSE,
                 index |-> 0, count |-> MaxNodes, ranks |-> RankingAll(node_count)]
       IN  Query("read_scores", context, ego, NoArg, Known(context, {ego}),
                 read_scores_rows(St, context, ego, q), FALSE,
                 read_scores(St, context, ego, kind_str))

ReadsGraph ==
  /\ steps < MaxOps
  /\ \E context \in ReadsContexts, scores \in ReadsEstimates,
        names \in {<<U1, U1>>, <<U1, C1>>, <<C1, U1>>, <<U2, U1>>} :
       LET ego   == names[1]
           focus == names[2]
           known == Known(context, {ego, focus})
           paths == IF known /\ ego # focus
                    THEN PathsLeft(contexts[context], node_ids[ego], node_ids[focus])
                    ELSE {<<>>}
       IN  \E ego_to_focus \in paths :
             LET q == [positive_only |-> TRUE, index |-> 0,
                       count |-> MaxNodes * MaxNodes, scores |-> scores,
                       ego_to_focus |-> ego_to_focus]
                 r == read_graph_result(St, context, ego, focus, q)
             IN  Query("read_graph", context, ego, focus, known, r.rows, r.panic,
                       read_graph(St, context, ego, focus, TRUE))

ReadsConnected ==
  /\ steps < MaxOps
  /\ \E context \in ReadsContexts, ego \in ReadsEgos :
       Query("read_connected", context, ego, NoArg, Known(context, {ego}),
             read_connected_rows(St, context, ego), FALSE,
             read_connected(St, context, ego))

ReadsEdges ==
  /\ steps < MaxOps
  /\ \E context \in ReadsContexts :
       Query("read_edges", context, NoArg, NoArg, Known(context, {}),
             read_edges_rows(St, context), FALSE, read_edges(St, context))

ReadsMutualScores ==
  /\ steps < MaxOps
  /\ \E context \in ReadsContexts, ego \in ReadsEgos, back \in ReadsEstimates :
       Query("read_mutual_scores", context, ego, NoArg, Known(context, {ego}),
             read_mutual_scores_rows(St, context, ego, RankingAll(node_count), back),
             FALSE,
             read_mutual_scores(St, context, ego, RankingAll(node_count)))

ReadsUnmarkedBeacons ==
  /\ steps < MaxOps
  /\ \E context \in ReadsContexts, src \in ReadsEgos, scores \in ReadsEstimates :
       Query("read_unmarked_beacons", context, src, NoArg, Known(context, {src}),
             read_unmarked_beacons_rows(St, context, src, scores), FALSE,
             read_unmarked_beacons(St, context, src))

ReadsNodeList ==
  /\ steps < MaxOps
  /\ Query("read_node_list", NoArg, NoArg, NoArg, TRUE,
           read_node_list_rows(St), FALSE, read_node_list(St))

NextReads ==
  \/ ReadsPutEdge
  \/ ReadsCreateContext
  \/ ReadsMarkBeacons
  \/ WriteReset
  \/ ReadsNodeScore
  \/ ReadsScores
  \/ ReadsGraph
  \/ ReadsConnected
  \/ ReadsEdges
  \/ ReadsMutualScores
  \/ ReadsUnmarkedBeacons
  \/ ReadsNodeList

SpecReads == Init /\ [][NextReads]_vars

\* the registry, the set of contexts, the edge weights and the mark sets are
\* the same after the step
SameButWalks ==
  /\ node_count' = node_count
  /\ node_ids'   = node_ids
  /\ node_infos' = node_infos
  /\ DOMAIN contexts' = DOMAIN contexts
  /\ \A c \in DOMAIN contexts :
       /\ contexts'[c].w = contexts[c].w
       /\ contexts'[c].nodes = contexts[c].nodes

\* C11: every read query leaves the node registry, the set of contexts,
\* every edge weight and every beacon mark set unchanged; the only state a
\* read may change is the walk cache.
C11_ReadsChangeOnlyWalks ==
  [][last'.op \in ReadOps => SameButWalks]_vars

\* a read_unmarked_beacons that materialised walks, in a graph with an edge
\* and a marked beacon
C11_Witness ==
  /\ last.op = "read_unmarked_beacons"
  /\ reply.calculated # {}
  /\ \E i \in 1 .. Len(node_infos) : node_infos[i].marks # {}
  /\ \E c \in DOMAIN contexts, e \in Pairs : contexts[c].w[e] # 0

NamesContext ==
  (ReadOps \ {"read_node_list"})
    \cup {"write_put_edge", "write_create_context", "write_mark_beacons"}

\* C13: a context comes into existence the first time any operation names
\* it, read or write, and from then on it exists in every later state.
C13_CreatedOnFirstReference ==
  [][/\ last'.op \in NamesContext => last'.context \in DOMAIN contexts'
     /\ DOMAIN contexts \subseteq DOMAIN contexts']_vars

\* C13 (as the code has it): write_put_edge and write_create_context leave
\* the context they name in existence; a read creates no context; a context
\* that exists still exists after every operation but write_reset, which
\* leaves no context.
C13_CreatedByWritesUntilReset ==
  [][/\ last'.op \in {"write_put_edge", "write_create_context"} =>
          last'.context \in DOMAIN contexts'
     /\ last'.op \in ReadOps => DOMAIN contexts' = DOMAIN contexts
     /\ last'.op = "write_reset" => DOMAIN contexts' = {}
     /\ last'.op # "write_reset" => DOMAIN contexts \subseteq DOMAIN contexts']_vars

\* a read that named the context X, after which X does not exist, in a graph
\* that has the null context
C13_Witness ==
  /\ last.op \in ReadOps
  /\ last.context = CtxX
  /\ CtxX \notin DOMAIN contexts
  /\ NullContext \in DOMAIN contexts

\* C15: once a query for ego E in context C has materialised walks, every
\* later query for E in C is served without another calculate call, and a
\* walk cache that exists is never discarded by a later operation.
C15_WalksServedAndKept ==
  /\ [](reply.op \in ReadOps => reply.again = {})
  /\ [][\A c \in DOMAIN contexts : \A e \in contexts[c].walks :
          /\ c \in DOMAIN contexts'
          /\ e \in contexts'[c].walks]_vars

\* ------------------------------------------------------------------
\*  read_graph: the focus neighbourhood, the path and the page
\*  (C21, C22, C23)
\* ------------------------------------------------------------------

\* The edges written before the queries, as (src, dst, amount), all in the
\* null context, between the focus U1, the Comment C1 and the User U2.
\* Amounts are in tenths: 8 and 6 are the weights 0.8 and 0.6.
ViewEdges ==
  {<<U1, C1, 8>>, <<U1, C1, -6>>, <<C1, U2, 6>>, <<U1, U2, 6>>, <<U1, U2, -6>>,
   <<U2, U1, 8>>, <<U2, C1, 6>>}
ViewEgos    == {U1, U2}
ViewFocus   == U1

\* The pages asked for, as (index, count).
ViewPages == {<<0, 100>>, <<0, 1>>, <<1, 1>>, <<1, 0>>}

ViewPutEdge ==
  /\ steps < MaxOps
  /\ \E e \in ViewEdges :
       /\ Become(write_put_edge(St, NullContext, e[1], e[2], e[3]))
       /\ last' = Cmd("write_put_edge", NullContext, e[1], e[2], e[3])
  /\ reply' = NoReply
  /\ UNCHANGED <<s2, proc, hasher>>

\* read_graph(null, ego, U1, positive_only, index, count).  When ego is
\* focus the search does not run and ego_to_focus does not exist: any path
\* from ego is drawn for it.
ViewReadGraph ==
  /\ steps < MaxOps
  /\ \E ego \in ViewEgos, positive_only \in BOOLEAN, page \in ViewPages :
       LET known == /\ NullContext \in DOMAIN contexts
                    /\ node_exists(St, ego)
                    /\ node_exists(St, ViewFocus)
           paths == IF ~known THEN {<<>>}
                    ELSE IF ego # ViewFocus
                    THEN PathsLeft(contexts[NullContext], node_ids[ego],
                                   node_ids[ViewFocus])
                    ELSE PositivePaths(contexts[NullContext], node_ids[ego])
       IN  \E ego_to_focus \in paths :
             LET q == [positive_only |-> positive_only, index |-> page[1],
                       count |-> page[2], scores |-> [id \in IdSpace |-> 1],
                       ego_to_focus |-> ego_to_focus]
                 r == read_graph_result(St, NullContext, ego, ViewFocus, q)
             IN  /\ Become(read_graph(St, NullContext, ego, ViewFocus, positive_only))
                 /\ last' = Cmd("read_graph", NullContext, ego, ViewFocus, 0)
                 /\ reply' = [op |-> "read_graph", context |-> NullContext,
                              ego |-> ego, focus |-> ViewFocus, q |-> q,
                              known |-> known, panic |-> r.panic,
                              added |-> r.added, rows |-> r.rows]
  /\ UNCHANGED <<s2, proc, hasher>>

NextView ==
  \/ ViewPutEdge
  \/ ViewReadGraph

SpecView == Init /\ [][NextView]_vars

\* the query of the scenario S3 has just been answered: the null context
\* holds the edges U1 -> C1 of weight 0.8 and C1 -> U2 of weight 0.6 and no
\* other edge, and read_graph(null, U1, U1, positive_only = true, 0, 100) ran
ChainRead ==
  /\ last.op = "read_graph" /\ reply.known
  /\ reply.ego = U1 /\ reply.focus = U1
  /\ reply.q.positive_only /\ reply.q.index = 0 /\ reply.q.count = 100
  /\ {U1, C1, U2} \subseteq DOMAIN node_ids
  /\ \A e \in Pairs :
       Weight(NullContext, e) =
         IF e = <<IdOf(U1), IdOf(C1)>> THEN 8
         ELSE IF e = <<IdOf(C1), IdOf(U2)>> THEN 6
         ELSE 0

\* some row is the edge src -> dst with the weight n / d
HasRow(src, dst, n, d) ==
  \E k \in 1 .. Len(reply.rows) :
    /\ reply.rows[k][1] = src
    /\ reply.rows[k][2] = dst
    /\ reply.rows[k][3][1] * d = n * reply.rows[k][3][2]

NoRowAt(name) ==
  \A k \in 1 .. Len(reply.rows) :
    reply.rows[k][1] # name /\ reply.rows[k][2] # name

\* C21: for the chain U1 -> C1 -> U2 with weights 0.8 and 0.6 in the null
\* context and no other edge, read_graph(null, U1, U1, true, 0, 100) contains
\* the edge (U1, U2) with the weight 0.48, the product of the two stored
\* weights, and no edge that has C1 as an endpoint.
C21_ChainIsProductOfStored ==
  ChainRead => HasRow(U1, U2, 48, 100) /\ NoRowAt(C1)

\* C21 (as the code has it): the edge (U1, U2) has the weight 1.0, the
\* product of the two normalised weights 0.8 / 0.8 and 0.6 / 0.6; no edge has
\* C1 as an endpoint.
C21_ChainIsProductOfNormalised ==
  ChainRead =>
    /\ reply.rows = << <<U1, U2, <<8 * 6, 8 * 6>> >> >>
    /\ HasRow(U1, U2, 1, 1)
    /\ NoRowAt(C1)

C21_Witness ==
  /\ ChainRead
  /\ ~reply.panic
  /\ Len(reply.rows) = 1
  /\ HasRow(U1, U2, 1, 1)

\* the Users reached from focus by one edge, or by two through a Comment or a
\* Beacon
FocusNeighbourhood ==
  LET graph == contexts[reply.context]
      f     == IdOf(reply.focus)
      Is(n, kinds) == n < node_count /\ node_infos[n + 1].kind \in kinds
  IN  {node_infos[n + 1].name : n \in
         {n \in IdSpace :
            /\ Is(n, {"User"}) /\ n # f
            /\ \/ graph.w[<<f, n>>] # 0
               \/ \E d \in IdSpace :
                    /\ Is(d, {"Comment", "Beacon"})
                    /\ graph.w[<<f, d>>] # 0 /\ graph.w[<<d, n>>] # 0}}

\* C22: read_graph with ego = focus does not run the search and returns
\* only edges of the focus neighbourhood: every edge has focus as its source
\* and a User reached directly or through a Comment/Beacon as its target.
C22_EgoIsFocus ==
  (last.op = "read_graph" /\ reply.known /\ reply.ego = reply.focus) =>
    /\ ~reply.panic
    /\ \A k \in 1 .. Len(reply.rows) :
         /\ reply.rows[k][1] = reply.focus
         /\ reply.rows[k][2] \in FocusNeighbourhood

\* a query with ego = focus that returns an edge, while a path of two steps
\* from ego was there to be added
C22_Witness ==
  /\ last.op = "read_graph" /\ reply.known /\ reply.ego = reply.focus
  /\ Len(reply.q.ego_to_focus) = 3
  /\ Len(reply.rows) > 0

\* the edges of the last read_graph before the page is cut, as rows
ViewAll == edge_rows(St, sort_edges_by_abs(edge_ids_of(reply.added)))

\* |a| >= |b| for two weights n / d, d > 0
AbsNotLess(a, b) == Abs(a[1]) * b[2] >= Abs(b[1]) * a[2]

\* C23: no result of read_graph holds an edge with src = dst or two rows
\* with the same (src, dst); the rows are ordered by |weight| descending and
\* are exactly the positions index .. index + count - 1 of that order.
C23_NoLoopNoDuplicateSortedSlice ==
  (last.op = "read_graph" /\ ~reply.panic) =>
    /\ \A k \in 1 .. Len(reply.rows) : reply.rows[k][1] # reply.rows[k][2]
    /\ \A j, k \in 1 .. Len(reply.rows) :
         (j # k) => <<reply.rows[j][1], reply.rows[j][2]>>
                      # <<reply.rows[k][1], reply.rows[k][2]>>
    /\ \A j, k \in 1 .. Len(reply.rows) :
         (j < k) => AbsNotLess(reply.rows[j][3], reply.rows[k][3])
    /\ \A j, k \in 1 .. Len(ViewAll) :
         /\ ViewAll[k][1] # ViewAll[k][2]
         /\ (j # k) => <<ViewAll[j][1], ViewAll[j][2]>> # <<ViewAll[k][1], ViewAll[k][2]>>
         /\ (j < k) => AbsNotLess(ViewAll[j][3], ViewAll[k][3])
    /\ reply.rows = Slice(ViewAll, reply.q.index, reply.q.count)

\* a query for the second position of two edges, the first of them of
\* negative weight
C23_Witness ==
  /\ last.op = "read_graph" /\ ~reply.panic
  /\ reply.q.index = 1 /\ reply.q.count = 1
  /\ Len(ViewAll) = 2
  /\ ViewAll[1][3][1] < 0
  /\ Len(reply.rows) = 1
  /\ reply.rows[1] = ViewAll[2]
  /\ ~AbsNotLess(ViewAll[2][3], ViewAll[1][3])

\* ------------------------------------------------------------------
\*  read_graph: the loop that drives the search (C24)
\* ------------------------------------------------------------------

\* `for _ in 0..10000`
iteration_cap == 10000

\* `open.resize(1024, Node::default())`
initial_slots == 1024

\* Number of times the search asks for the buffers to be doubled.
MaxDoublings == 1

\* The outcomes of crate::astar's iteration other than NEIGHBOR(request).
PlainStatuses == {"PROGRESS", "OUT_OF_MEMORY", "SUCCESS", "FAIL"}

\* The requests a NEIGHBOR outcome carries: a node and the index of one of
\* its positive edges; here the first edge of the ego, and the one after its
\* last.
Requests == {[node |-> 0, index |-> i] : i \in 0 .. 1}

NoneLink == [neighbor |-> "None"]

\* the answer to NEIGHBOR(request) when `skip(request.index)` is left out
first_neighbor_of(graph, request) ==
  IF ~contains_node(graph, request.node) THEN NoneLink
  ELSE IF pos_edges(graph, request.node) = {} THEN NoneLink
  ELSE [neighbor       |-> SeqOfIds(pos_edges(graph, request.node))[1],
        exact_distance |-> <<pos_sum_or_one(graph, request.node),
                             graph.w[<<request.node,
                                       SeqOfIds(pos_edges(graph, request.node))[1]>>]>>,
        estimate       |-> 0]

\* the answer to NEIGHBOR(request): the positive edge of request.node at
\* position request.index, with the inverse of its normalised weight as the
\* distance (a fraction), or None
neighbor_of(graph, request) ==
  IF ~contains_node(graph, request.node) THEN NoneLink
  ELSE LET kv == SubSeq(SeqOfIds(pos_edges(graph, request.node)),
                        request.index + 1,
                        Cardinality(pos_edges(graph, request.node)))
       IN  IF kv = <<>> THEN NoneLink
           ELSE [neighbor       |-> kv[1],
                 exact_distance |-> <<pos_sum_or_one(graph, request.node),
                                      graph.w[<<request.node, kv[1]>>]>>,
                 estimate       |-> 0]

\* a buffer that OUT_OF_MEMORY leaves as long as it was
same_len(len) == len

\* `open.resize(open.len() * 2, Node::default())`, and the same for closed
doubled(len) == len * 2

\* a loop that only SUCCESS or FAIL ends
search_goes_on_uncapped(n, status) == status.name \notin {"SUCCESS", "FAIL"}

\* the loop goes on: fewer than 10000 iterations done and the last one did
\* not break
search_goes_on(n, status) ==
  /\ n < iteration_cap
  /\ status.name \notin {"SUCCESS", "FAIL"}

\* The graph the search runs over: the null context with the edges U1 -> U2
\* and U2 -> C1; read_graph(null, U1, C1, ...) has reached the search.
SearchGraph ==
  write_put_edge(write_put_edge(AugMultiGraph_new, NullContext, U1, U2, 2),
                 NullContext, U2, C1, 1)

InitSearch ==
  /\ node_count = SearchGraph.node_count
  /\ node_infos = SearchGraph.node_infos
  /\ node_ids   = SearchGraph.node_ids
  /\ contexts   = SearchGraph.contexts
  /\ last       = [op |-> "read_graph", context |-> NullContext, src |-> U1,
                    dst |-> C1, amount |-> 0, rel |-> "none", pre |-> NoPre]
  /\ steps      = 0
  /\ s2         = S2Idle
  /\ reply      = NoReply
  /\ hasher     = NoCollisions
  /\ proc       = [pc |-> "search", n |-> 0, status |-> [name |-> "PROGRESS"],
                   neighbor |-> NoneLink,
                   open |-> initial_slots, closed |-> initial_slots]

\* one pass of the loop: the call of iteration and the match on its status
SearchIteration ==
  /\ proc.pc = "search"
  /\ search_goes_on(proc.n, proc.status)
  /\ \/ \E name \in PlainStatuses :
          /\ name = "OUT_OF_MEMORY" => proc.open < initial_slots * 2 ^ MaxDoublings
          /\ proc' = [proc EXCEPT
                        !.n = @ + 1,
                        !.status = [name |-> name],
                        !.open   = IF name = "OUT_OF_MEMORY" THEN doubled(@) ELSE @,
                        !.closed = IF name = "OUT_OF_MEMORY" THEN doubled(@) ELSE @]
     \/ \E request \in Requests :
          proc' = [proc EXCEPT
                     !.n = @ + 1,
                     !.status = [name |-> "NEIGHBOR", request |-> request],
                     !.neighbor = neighbor_of(contexts[NullContext], request)]
  /\ UNCHANGED <<node_count, node_infos, node_ids, contexts, last, steps, s2, reply, hasher>>

\* the loop is left, by a break or by the end of the range
SearchLeave ==
  /\ proc.pc = "search"
  /\ ~search_goes_on(proc.n, proc.status)
  /\ proc' = [proc EXCEPT !.pc = "left"]
  /\ UNCHANGED <<node_count, node_infos, node_ids, contexts, last, steps, s2, reply, hasher>>

NextSearch ==
  \/ SearchIteration
  \/ SearchLeave

SpecSearch == InitSearch /\ [][NextSearch]_vars /\ WF_vars(NextSearch)

\* C24: read_graph always terminates: the loop that drives the search calls
\* iteration at most 10 000 times, for any graph, ego and focus, and is left
\* also when the search reports neither SUCCESS nor FAIL.
C24_SearchTerminates ==
  /\ [](proc.n <= iteration_cap)
  /\ <>(proc.pc = "left")

\* the loop left after 10 000 iterations, the last status being PROGRESS
C24_Witness ==
  /\ proc.pc = "left"
  /\ proc.n = iteration_cap
  /\ proc.status.name = "PROGRESS"

\* ------------------------------------------------------------------
\*  The beacon marks (C25, C26)
\* ------------------------------------------------------------------

\* Two sources and one Beacon, in the null context.
MarksSources == {U1, U2}
MarksKeys    == {NullContext} \X MarksSources

\* The bit positions a (context, name) can hash to: patterns that overlap,
\* and one that covers the others.
MarkPatterns == {{0, 1}, {1, 2}, {0, 1, 2}}

\* The estimator's score of the Beacon for each source; it changes with the
\* edges only.
MarksEstimates == [MarksSources -> {0, 1}]

NoMarks ==
  [op |-> "none", src |-> NoArg, rows |-> <<>>,
   est    |-> [src \in MarksSources |-> 0],
   called |-> {},   \* the (context, source) write_mark_beacons was called for
   clean  |-> {},   \* those of them with no write since the call
   marked |-> {}]   \* (context, source, beacon) for the beacons the calls marked

InitMarks ==
  /\ node_count = AugMultiGraph_new.node_count
  /\ node_infos = AugMultiGraph_new.node_infos
  /\ node_ids   = AugMultiGraph_new.node_ids
  /\ contexts   = AugMultiGraph_new.contexts
  /\ last       = [op |-> "new", context |-> NoArg, src |-> NoArg,
                    dst |-> NoArg, amount |-> 0, rel |-> "none",
                    pre |-> NoPre]
  /\ steps      = 0
  /\ s2         = S2Idle
  /\ proc       = ProcIdle
  /\ reply      = NoMarks
  /\ hasher     \in [MarksKeys -> MarkPatterns]

ScoresOf(src) == [id \in IdSpace |-> reply.est[src]]

\* the names of the Beacons that src scores positively in the null context of g
ScoredBeacons(g, src, scores) ==
  IF NullContext \notin DOMAIN g.contexts \/ ~node_exists(g, src) THEN {}
  ELSE {g.node_infos[b + 1].name : b \in
          {b \in 0 .. (g.node_count - 1) :
             /\ g.node_infos[b + 1].kind = "Beacon"
             /\ get_score_or_recalculate_value(g, NullContext, NodeIdOf(g, src),
                                               b, scores[b]).value > 0}}

MarksPutEdge ==
  /\ steps < MaxOps
  /\ \E src \in MarksSources, est \in MarksEstimates :
       /\ Become(write_put_edge(St, NullContext, src, B1, 1))
       /\ last' = Cmd("write_put_edge", NullContext, src, B1, 1)
       /\ reply' = [reply EXCEPT !.op = "write_put_edge", !.src = src,
                                 !.rows = <<>>, !.est = est, !.clean = {}]
  /\ UNCHANGED <<s2, proc, hasher>>

MarksMarkBeacons ==
  /\ steps < MaxOps
  /\ \E src \in MarksSources :
       LET g2 == write_mark_beacons(St, NullContext, src, ScoresOf(src))
       IN  /\ Become(g2)
           /\ last' = Cmd("write_mark_beacons", NullContext, src, NoArg, 0)
           /\ reply' = [reply EXCEPT
                          !.op = "write_mark_beacons", !.src = src, !.rows = <<>>,
                          !.called = @ \cup {<<NullContext, src>>},
                          !.clean  = @ \cup {<<NullContext, src>>},
                          !.marked = @ \cup
                             {<<NullContext, src, b>> :
                                b \in ScoredBeacons(g2, src, ScoresOf(src))}]
  /\ UNCHANGED <<s2, proc, hasher>>

MarksReadUnmarked ==
  /\ steps < MaxOps
  /\ \E src \in MarksSources :
       /\ Become(read_unmarked_beacons(St, NullContext, src))
       /\ last' = Cmd("read_unmarked_beacons", NullContext, src, NoArg, 0)
       /\ reply' = [reply EXCEPT
                      !.op = "read_unmarked_beacons", !.src = src,
                      !.rows = read_unmarked_beacons_rows(St, NullContext, src,
                                                          ScoresOf(src))]
  /\ UNCHANGED <<s2, proc, hasher>>

MarksReset ==
  /\ steps < MaxOps
  /\ Become(write_reset(St))
  /\ last' = Cmd("write_reset", NoArg, NoArg, NoArg, 0)
  /\ reply' = NoMarks
  /\ UNCHANGED <<s2, proc, hasher>>

NextMarks ==
  \/ MarksPutEdge
  \/ MarksMarkBeacons
  \/ MarksReadUnmarked
  \/ MarksReset

SpecMarks == InitMarks /\ [][NextMarks]_vars

\* the names the last read_unmarked_beacons listed
Listed == {reply.rows[k][1] : k \in 1 .. Len(reply.rows)}

\* C25: after write_mark_beacons(C, S), read_unmarked_beacons(C, S) never
\* lists a beacon that the call marked, whatever edge writes and queries run
\* in between, as long as the marks are not reset; with no write in between
\* it returns an empty list.
C25_MarkedNeverListed ==
  last.op = "read_unmarked_beacons" =>
    /\ \A b \in Listed : <<NullContext, reply.src, b>> \notin reply.marked
    /\ <<NullContext, reply.src>> \in reply.clean => reply.rows = <<>>

\* a read after a mark and a write: the source scores the Beacon it marked
\* positively, and the Beacon is not listed
C25_Witness ==
  /\ last.op = "read_unmarked_beacons"
  /\ <<NullContext, reply.src>> \in reply.called \ reply.clean
  /\ <<NullContext, reply.src, B1>> \in reply.marked
  /\ B1 \in ScoredBeacons(St, reply.src, ScoresOf(reply.src))
  /\ reply.rows = <<>>

\* read_unmarked_beacons(null, U_c) has just run, write_mark_beacons was
\* called for another source and never for U_c
ReadByAnother ==
  /\ last.op = "read_unmarked_beacons"
  /\ reply.called # {}
  /\ <<NullContext, reply.src>> \notin reply.called

\* C26: after write_mark_beacons(null, U_a), read_unmarked_beacons(null, U_c)
\* for a different source U_c lists every beacon that U_c scores positively:
\* marking for one (context, source) never hides a beacon from another
\* source.
C26_OtherSourceNeverHidden ==
  ReadByAnother =>
    Listed = ScoredBeacons(St, reply.src, ScoresOf(reply.src))

\* the bits marked for the pairs write_mark_beacons was called for
BitsCalled == UNION {hasher[k] : k \in reply.called}

\* C26 (as the code has it): U_c is shown every beacon it scores positively
\* unless every bit of the pattern of (null, U_c) is among the bits of the
\* patterns marked for other pairs.
C26_HiddenOnlyByCoveredBits ==
  (ReadByAnother /\ ~(hasher[<<NullContext, reply.src>>] \subseteq BitsCalled)) =>
    Listed = ScoredBeacons(St, reply.src, ScoresOf(reply.src))

\* U2 is shown the Beacon that U1 marked, the two patterns sharing a bit
C26_Witness ==
  /\ ReadByAnother
  /\ reply.src = U2
  /\ <<NullContext, U1, B1>> \in reply.marked
  /\ hasher[<<NullContext, U2>>] \cap hasher[<<NullContext, U1>>] # {}
  /\ Listed = {B1}

\* ------------------------------------------------------------------
\*  The zero node (C27)
\* ------------------------------------------------------------------

\* ZERO_NODE, "U000000000000" unless MERITRANK_ZERO_NODE is set: a User name
ZERO_NODE == <<"U", "0">>

NUM_WALK == 10000

\* MERITRANK_TOP_NODES_LIMIT as the process read it when it started: the
\* default, or a limit smaller than the number of nodes.
TopNodesLimits  == {1, 100}
TOP_NODES_LIMIT == reply.limit

\* `graph.calculate(id, num_walk)` for every User of node_infos, in the null
\* context; an id the estimator does not hold is an error that is logged.
RECURSIVE CalculateEach(_, _, _)
CalculateEach(g, infos, id) ==
  IF id >= Len(infos) THEN g
  ELSE CalculateEach(
         IF infos[id + 1].kind = "User" /\ contains_node(g.contexts[NullContext], id)
         THEN [g EXCEPT !.contexts[NullContext] = calculate(@, id)]
         ELSE g,
         infos, id + 1)

recalculate_all(g, num_walk) ==
  CalculateEach(graph_from(g, NullContext), g.node_infos, 0)

\* delete_from_zero that leaves the negative edges of the zero node
delete_positive_from_zero(g) ==
  LET g1     == find_or_add_node_by_name(g, ZERO_NODE)
      src_id == NodeIdOf(g, ZERO_NODE)
  IN  ZeroEach(graph_from(g1, NullContext), NullContext, src_id,
               pos_neighbors_only(g1, NullContext, src_id))

delete_from_zero(g) ==
  LET g1     == find_or_add_node_by_name(g, ZERO_NODE)
      src_id == NodeIdOf(g, ZERO_NODE)
  IN  ZeroEach(graph_from(g1, NullContext), NullContext, src_id,
               all_neighbors(g1, NullContext, src_id))

\* the Users of node_infos but the zero node, by ascending id
reduced_graph_users(g, zero) ==
  SeqOfIds({id \in 0 .. (Len(g.node_infos) - 1) :
              id # zero /\ g.node_infos[id + 1].kind = "User"})

\* the first filter of reduced_graph over the ranking of one ego
RECURSIVE ranked_edges(_, _, _)
ranked_edges(g, id, ranking) ==
  IF ranking = <<>> THEN <<>>
  ELSE LET node_id == Head(ranking)[1]
           score   == Head(ranking)[2]
           kind    == node_info_from_id(g, node_id).kind
       IN  (IF (kind = "User" \/ kind = "Beacon") /\ score > 0 /\ id # node_id
            THEN << <<id, node_id, score>> >> ELSE <<>>)
             \o ranked_edges(g, id, Tail(ranking))

\* the second filter of reduced_graph
RECURSIVE without_zero(_, _, _)
without_zero(g, zero, edges) ==
  IF edges = <<>> THEN <<>>
  ELSE LET e == Head(edges)
           ego_kind == node_info_from_id(g, e[1]).kind
           dst_kind == node_info_from_id(g, e[2]).kind
       IN  (IF e[1] = zero \/ e[2] = zero THEN <<>>
            ELSE IF /\ e[1] # e[2]
                    /\ ego_kind = "User"
                    /\ (dst_kind = "User" \/ dst_kind = "Beacon")
            THEN <<e>> ELSE <<>>)
             \o without_zero(g, zero, Tail(edges))

\* reduced_graph: the state after the call
RECURSIVE CalculateUsers(_, _)
CalculateUsers(g, users) ==
  IF users = <<>> THEN g
  ELSE CalculateUsers(
         get_ranks_or_recalculate(
           [g EXCEPT !.contexts[NullContext] = calculate(@, Head(users))],
           NullContext, Head(users)),
         Tail(users))

reduced_graph(g) ==
  LET g1   == find_or_add_node_by_name(g, ZERO_NODE)
      zero == NodeIdOf(g, ZERO_NODE)
  IN  IF reduced_graph_users(g1, zero) = <<>> THEN g1
      ELSE CalculateUsers(graph_from(g1, NullContext), reduced_graph_users(g1, zero))

\* reduced_graph: the edges returned, ranks[id] being the estimator's ranking
\* for the user id
reduced_graph_edges(g, ranks) ==
  LET g1    == find_or_add_node_by_name(g, ZERO_NODE)
      zero  == NodeIdOf(g, ZERO_NODE)
      users == reduced_graph_users(g1, zero)
  IN  without_zero(g1, zero,
        Concat([k \in 1 .. Len(users) |->
                  ranked_edges(g1, users[k],
                    get_ranks_or_recalculate_value(
                      [g1 EXCEPT !.contexts[NullContext] = calculate(@, users[k])],
                      NullContext, users[k], ranks[users[k]]).value)]))

\* the nodes `pr.add_edge(*source, *target)` gives Pagerank
pagerank_nodes(zero, reduced) ==
  UNION {{reduced[k][1], reduced[k][2]} :
           k \in {k \in 1 .. Len(reduced) :
                    reduced[k][1] # zero /\ reduced[k][2] # zero}}

PagerankScores == {1, 2}

\* pr.nodes() after pr.calculate(): every node of the edges once, with its
\* score, sorted by score; a PageRank score is positive.
PagerankNodes(nodes) ==
  {s \in UNION {[1 .. Cardinality(nodes) -> nodes \X PagerankScores]} :
     /\ \A n \in nodes : \E k \in DOMAIN s : s[k][1] = n
     /\ \A j, k \in DOMAIN s : j < k => s[j][2] >= s[k][2]}

\* top_nodes with no `.take(*TOP_NODES_LIMIT)`
top_nodes_all(reduced, sorted) == IF reduced = <<>> THEN <<>> ELSE sorted

\* top_nodes: the list returned, sorted being what pr.nodes() returns for the
\* reduced graph
top_nodes(reduced, sorted) ==
  IF reduced = <<>> THEN <<>>
  ELSE SubSeq(sorted, 1, IF Len(sorted) < TOP_NODES_LIMIT THEN Len(sorted)
                         ELSE TOP_NODES_LIMIT)

\* `for (k, (node_id, amount)) in nodes.iter().enumerate()
\*    { self.set_edge("", zero, *node_id, *amount); }`
RECURSIVE SeedEach(_, _, _)
SeedEach(g, zero, nodes) ==
  IF nodes = <<>> THEN g
  ELSE SeedEach(set_edge(g, NullContext, zero, Head(nodes)[1], Head(nodes)[2]),
                zero, Tail(nodes))

write_recalculate_zero(g, nodes) ==
  LET g1   == recalculate_all(g, 0)
      g2   == delete_from_zero(g1)
      g3   == reduced_graph(g2)
      g4   == recalculate_all(g3, 0)
      g5   == find_or_add_node_by_name(g4, ZERO_NODE)
      zero == NodeIdOf(g4, ZERO_NODE)
      g6   == SeedEach(g5, zero, nodes)
  IN  recalculate_all(g6, NUM_WALK)

\* The edges the clients write: between users, to the Beacon, into the zero
\* node, and out of the zero node (one of them negative).
ZeroEdges ==
  {<<U1, B1, 1>>, <<U1, U2, 1>>, <<U2, U1, 1>>, <<U1, ZERO_NODE, 1>>,
   <<ZERO_NODE, U1, -1>>, <<ZERO_NODE, B1, 2>>}

\* The rankings the estimator answers: a score of -1 or 1 for each node, and
\* a node is ranked by an ego when it is the ego or an edge of the null
\* context leads to it.
ZeroScores == [IdSpace -> {-1, 1}]

HasInEdge(g, d) ==
  /\ NullContext \in DOMAIN g.contexts
  /\ \E s \in IdSpace : s # d /\ g.contexts[NullContext].w[<<s, d>>] # 0

ZeroRanks(g, sc) ==
  [ego \in IdSpace |->
     LET ranked == {d \in IdSpace : /\ d < g.node_count
                                    /\ sc[d] # 0
                                    /\ (d = ego \/ HasInEdge(g, d))}
     IN  [k \in 1 .. Cardinality(ranked) |->
            <<SeqOfIds(ranked)[k], sc[SeqOfIds(ranked)[k]]>>]]

\* the edges out of a named node in the null context, as (destination, weight)
OutEdges(g, name) ==
  IF NullContext \notin DOMAIN g.contexts \/ ~node_exists(g, name) THEN {}
  ELSE {<<d, g.contexts[NullContext].w[<<g.node_ids[name], d>>]>> :
          d \in {d \in IdSpace :
                   g.contexts[NullContext].w[<<g.node_ids[name], d>>] # 0}}

NoZero(limit) ==
  [op |-> "none", limit |-> limit, runs |-> 0, before |-> {}, ranked |-> 0]

InitZero ==
  /\ node_count = AugMultiGraph_new.node_count
  /\ node_infos = AugMultiGraph_new.node_infos
  /\ node_ids   = AugMultiGraph_new.node_ids
  /\ contexts   = AugMultiGraph_new.contexts
  /\ last       = [op |-> "new", context |-> NoArg, src |-> NoArg,
                    dst |-> NoArg, amount |-> 0, rel |-> "none",
                    pre |-> NoPre]
  /\ steps      = 0
  /\ s2         = S2Idle
  /\ proc       = ProcIdle
  /\ hasher     = NoCollisions
  /\ \E limit \in TopNodesLimits : reply = NoZero(limit)

ZeroPutEdge ==
  /\ steps < MaxOps
  /\ \E e \in ZeroEdges :
       /\ write_put_edge(St, NullContext, e[1], e[2], e[3]).node_count <= MaxNodes
       /\ Become(write_put_edge(St, NullContext, e[1], e[2], e[3]))
       /\ last' = Cmd("write_put_edge", NullContext, e[1], e[2], e[3])
       /\ reply' = [reply EXCEPT !.op = "write_put_edge"]
  /\ UNCHANGED <<s2, proc, hasher>>

\* the state the ranks are asked in: after the purge and the calculate calls
Purged(g) == reduced_graph(delete_from_zero(recalculate_all(g, 0)))

WriteRecalculateZero ==
  /\ steps < MaxOps
  /\ find_or_add_node_by_name(St, ZERO_NODE).node_count <= MaxNodes
  /\ \E sc \in ZeroScores :
       LET zero    == NodeIdOf(Purged(St), ZERO_NODE)
           reduced == reduced_graph_edges(Purged(St), ZeroRanks(Purged(St), sc))
       IN  \E sorted \in PagerankNodes(pagerank_nodes(zero, reduced)) :
             /\ Become(write_recalculate_zero(St, top_nodes(reduced, sorted)))
             /\ last' = Cmd("write_recalculate_zero", NoArg, NoArg, NoArg, 0)
             /\ reply' = [reply EXCEPT
                            !.op = "write_recalculate_zero",
                            !.runs = @ + 1,
                            !.before = OutEdges(St, ZERO_NODE),
                            !.ranked = Len(sorted)]
  /\ UNCHANGED <<s2, proc, hasher>>

NextZero ==
  \/ ZeroPutEdge
  \/ WriteRecalculateZero

SpecZero == InitZero /\ [][NextZero]_vars

\* C27: after every write_recalculate_zero, a second run on a graph that
\* already has zero-node edges included, the zero node has at most
\* TOP_NODES_LIMIT outgoing edges in the null context, none of them to the
\* zero node itself, each to a User or a Beacon and with a positive weight.
C27_ZeroEdgesAfterRecalculate ==
  last.op = "write_recalculate_zero" =>
    /\ Cardinality(OutEdges(St, ZERO_NODE)) <= TOP_NODES_LIMIT
    /\ \A e \in OutEdges(St, ZERO_NODE) :
         /\ e[1] # node_ids[ZERO_NODE]
         /\ node_info_from_id(St, e[1]).kind \in {"User", "Beacon"}
         /\ e[2] > 0

\* a second run with the limit 1: the zero node had a negative edge and an
\* edge of the first run, Pagerank ranked two nodes, and one edge is left
C27_Witness ==
  /\ last.op = "write_recalculate_zero"
  /\ reply.runs = 2
  /\ reply.limit = 1
  /\ reply.ranked = 2
  /\ \E e \in reply.before : e[2] < 0
  /\ Cardinality(reply.before) = 2
  /\ Cardinality(OutEdges(St, ZERO_NODE)) = 1

\* ------------------------------------------------------------------
\*  The service: socket, workers and the lock of the graph (C28, C29, C30)
\* ------------------------------------------------------------------

\* Number of requests the clients send.
MaxRequests == 3

\* MERITRANK_SERVICE_THREADS: 1 is main_sync, more is main_async.
ThreadCounts == {1, 2}
THREADS      == proc.threads
Workers      == 1 .. THREADS

ServiceNames == {ZERO_NODE, U1, U2}
ServicePairs == ServiceNames \X ServiceNames

\* The graph behind GRAPH, null context: the names it knows and the weight of
\* each edge (0 = no edge).
GRAPH_new == [nodes |-> {}, w |-> [e \in ServicePairs |-> 0]]

\* graph.get_node_id(name): the node is created when it is not known
get_node_id(graph, name) == [graph EXCEPT !.nodes = @ \cup {name}]

\* mr_edge with no context: one lock, both nodes, upsert_edge
mr_edge(graph, subject, object, amount) ==
  [get_node_id(get_node_id(graph, subject), object)
     EXCEPT !.w[<<subject, object>>] = amount]

\* mr_delete_edge with no context: one lock, both nodes, remove_edge
mr_delete_edge(graph, src, dst) ==
  [get_node_id(get_node_id(graph, src), dst) EXCEPT !.w[<<src, dst>>] = 0]

RECURSIVE SeqOfNames(_)
SeqOfNames(S) ==
  IF S = {} THEN <<>>
  ELSE LET m == CHOOSE x \in S : TRUE IN <<m>> \o SeqOfNames(S \ {m})

\* get_connected(ego): one lock; the edges out of ego as (from, to)
get_connected(graph, ego) ==
  IF ego \notin graph.nodes THEN <<>>
  ELSE SeqOfNames({e \in ServicePairs : e[1] = ego /\ graph.w[e] # 0})

\* get_reduced_graph over the copy `rank` and the names under the lock: an
\* ego User ranks a User or a Beacon positively along its positive edge.
get_reduced_graph(rank, graph) ==
  SeqOfNames({<<e[1], e[2], 1>> : e \in
     {e \in ServicePairs :
        /\ e[1] \in graph.nodes /\ e[2] \in graph.nodes /\ e[1] # e[2]
        /\ kind_from_name(e[1]) = "User"
        /\ kind_from_name(e[2]) \in {"User", "Beacon"}
        /\ rank.w[e] > 0}})

\* the calls with `?` in get_reduced_graph: calculate fails for a User the
\* copy does not hold
reduced_graph_fails(rank, graph) ==
  \E u \in graph.nodes : kind_from_name(u) = "User" /\ u \notin rank.nodes

\* The requests the clients send (a = first name, b = second name, n = amount
\* or limit): two edges, one of them out of the zero node; zerorec; scores
\* with a negative limit; a node score; bytes that match no pattern of
\* process.
ServiceRequests ==
  {[kind |-> "edge",       a |-> U1,        b |-> U2,    n |-> 1],
   [kind |-> "edge",       a |-> ZERO_NODE, b |-> U2,    n |-> -1],
   [kind |-> "zerorec",    a |-> NoArg,     b |-> NoArg, n |-> 0],
   [kind |-> "scores",     a |-> U1,        b |-> NoArg, n |-> -1],
   [kind |-> "node_score", a |-> U1,        b |-> U2,    n |-> 0],
   [kind |-> "junk",       a |-> NoArg,     b |-> NoArg, n |-> 0]}

NoRequest == [kind |-> "none", a |-> NoArg, b |-> NoArg, n |-> 0]

\* A worker: where it stands (recv: waits for a message; process, ids, purge,
\* top, seed: inside process(req); send: the reply is handed to the socket;
\* panicked), the request it holds, the list it walks, its copy of the
\* graph, and its reply.
WorkerIdle ==
  [pc |-> "recv", id |-> 0, req |-> NoRequest, todo |-> <<>>,
   rank |-> GRAPH_new, out |-> "none"]

InitService ==
  /\ node_count = AugMultiGraph_new.node_count
  /\ node_infos = AugMultiGraph_new.node_infos
  /\ node_ids   = AugMultiGraph_new.node_ids
  /\ contexts   = AugMultiGraph_new.contexts
  /\ last       = [op |-> "new", context |-> NoArg, src |-> NoArg,
                    dst |-> NoArg, amount |-> 0, rel |-> "none",
                    pre |-> NoPre]
  /\ steps      = 0
  /\ s2         = S2Idle
  /\ hasher     = NoCollisions
  /\ reply      = NoZero(100)
  /\ \E threads \in ThreadCounts :
       proc = [pc |-> "service", threads |-> threads, GRAPH |-> GRAPH_new,
               socket |-> {}, workers |-> [w \in 1 .. threads |-> WorkerIdle],
               replies |-> [id \in 1 .. MaxRequests |-> 0], exited |-> FALSE]

ServiceUnchanged ==
  UNCHANGED <<node_count, node_infos, node_ids, contexts, last, s2, reply, hasher>>

\* a client's request reaches the socket
ClientRequest ==
  /\ steps < MaxRequests
  /\ ~proc.exited
  /\ \E r \in ServiceRequests :
       proc' = [proc EXCEPT !.socket = @ \cup {[id |-> steps + 1, req |-> r]}]
  /\ steps' = steps + 1
  /\ ServiceUnchanged

\* process(req) returns msg: `Ok` bytes or the error as a string; the worker
\* goes on to send it
Finish(w, graph, out) ==
  proc' = [proc EXCEPT !.GRAPH = graph,
                       !.workers[w] = [@ EXCEPT !.pc = "send", !.todo = <<>>,
                                                !.rank = GRAPH_new, !.out = out]]

\* A panic: in main_sync it unwinds main; in a callback of Aio the thread of
\* the callback is lost, and the process with it when the panic aborts.
Panic(w) ==
  IF THREADS = 1
  THEN proc' = [proc EXCEPT !.exited = TRUE, !.workers[w].pc = "panicked"]
  ELSE \E abort \in BOOLEAN :
         proc' = [proc EXCEPT !.exited = abort, !.workers[w].pc = "panicked"]

\* `s.recv()?` returning Ok, AioResult::Recv(Ok(req))
RecvAt(w) ==
  /\ ~proc.exited
  /\ proc.workers[w].pc = "recv"
  /\ \E m \in proc.socket :
       proc' = [proc EXCEPT !.socket = @ \ {m},
                            !.workers[w] = [@ EXCEPT !.pc = "process",
                                                     !.id = m.id, !.req = m.req]]
  /\ UNCHANGED steps
  /\ ServiceUnchanged

\* `s.recv()?` returning Err: main returns; AioResult::Recv(Err(e)): panic
RecvErrorAt(w) ==
  /\ ~proc.exited
  /\ proc.workers[w].pc = "recv"
  /\ IF THREADS = 1
     THEN proc' = [proc EXCEPT !.exited = TRUE]
     ELSE Panic(w)
  /\ UNCHANGED steps
  /\ ServiceUnchanged

\* GraphContext::process up to the end of the first lock of the handler
ProcessAt(w) ==
  /\ ~proc.exited
  /\ proc.workers[w].pc = "process"
  /\ LET req == proc.workers[w].req
     IN  CASE req.kind = "junk" ->
                Finish(w, proc.GRAPH, "Error: Cannot understand request")
           [] req.kind = "edge" ->
                Finish(w, mr_edge(proc.GRAPH, req.a, req.b, req.n), "Ok")
           [] req.kind \in {"scores", "node_score"} ->
                proc' = [proc EXCEPT !.workers[w] =
                           [@ EXCEPT !.pc = "ids", !.rank = proc.GRAPH]]
           [] req.kind = "zerorec" ->
                proc' = [proc EXCEPT !.workers[w] =
                           [@ EXCEPT !.pc = "purge",
                                     !.todo = get_connected(proc.GRAPH, ZERO_NODE)]]
  /\ UNCHANGED steps
  /\ ServiceUnchanged

\* mr_node_score, mr_scores after get_rank: node_name_to_id under its own
\* lock, calculate on the copy, and `limit.try_into().unwrap()`
IdsAt(w) ==
  /\ ~proc.exited
  /\ proc.workers[w].pc = "ids"
  /\ LET req  == proc.workers[w].req
         rank == proc.workers[w].rank
     IN  IF \/ req.a \notin proc.GRAPH.nodes
            \/ (req.kind = "node_score" /\ req.b \notin proc.GRAPH.nodes)
            \/ req.a \notin rank.nodes
         THEN Finish(w, proc.GRAPH, "Error")
         ELSE IF req.kind = "scores" /\ req.n < 0
         THEN Panic(w)
         ELSE Finish(w, proc.GRAPH, "Ok")
  /\ UNCHANGED steps
  /\ ServiceUnchanged

\* delete_from_zero: one mr_delete_edge, under its own lock
PurgeAt(w) ==
  /\ ~proc.exited
  /\ proc.workers[w].pc = "purge"
  /\ proc.workers[w].todo # <<>>
  /\ LET e == Head(proc.workers[w].todo)
     IN  proc' = [proc EXCEPT !.GRAPH = mr_delete_edge(@, e[1], e[2]),
                              !.workers[w].todo = Tail(@)]
  /\ UNCHANGED steps
  /\ ServiceUnchanged

\* get_reduced_graph: `self.get_rank()?` copies the graph under the lock
GetRankAt(w) ==
  /\ ~proc.exited
  /\ proc.workers[w].pc = "purge"
  /\ proc.workers[w].todo = <<>>
  /\ proc' = [proc EXCEPT !.workers[w] = [@ EXCEPT !.pc = "top", !.rank = proc.GRAPH]]
  /\ UNCHANGED steps
  /\ ServiceUnchanged

\* the rest of get_reduced_graph under `GRAPH.lock()?`, and top_nodes
TopNodesAt(w) ==
  /\ ~proc.exited
  /\ proc.workers[w].pc = "top"
  /\ LET rank    == proc.workers[w].rank
         reduced == get_reduced_graph(rank, proc.GRAPH)
     IN  IF reduced_graph_fails(rank, proc.GRAPH)
         THEN Finish(w, proc.GRAPH, "Error")
         ELSE IF reduced = <<>>
         THEN Finish(w, proc.GRAPH, "Reduced graph empty")
         ELSE \E sorted \in PagerankNodes(pagerank_nodes(ZERO_NODE, reduced)) :
                IF top_nodes(reduced, sorted) = <<>>
                THEN Finish(w, proc.GRAPH, "No top nodes")
                ELSE proc' = [proc EXCEPT !.workers[w] =
                                [@ EXCEPT !.pc = "seed", !.rank = GRAPH_new,
                                          !.todo = top_nodes(reduced, sorted)]]
  /\ UNCHANGED steps
  /\ ServiceUnchanged

\* mr_zerorec: one mr_edge(ZERO_NODE, name, amount), under its own lock
SeedAt(w) ==
  /\ ~proc.exited
  /\ proc.workers[w].pc = "seed"
  /\ LET n     == Head(proc.workers[w].todo)
         graph == mr_edge(proc.GRAPH, ZERO_NODE, n[1], n[2])
     IN  IF Tail(proc.workers[w].todo) = <<>>
         THEN Finish(w, graph, "Ok")
         ELSE proc' = [proc EXCEPT !.GRAPH = graph, !.workers[w].todo = Tail(@)]
  /\ UNCHANGED steps
  /\ ServiceUnchanged

\* `s.send(reply.as_slice())` returning Ok, AioResult::Send(Ok(_)): the
\* worker waits for the next message
SendAt(w) ==
  /\ ~proc.exited
  /\ proc.workers[w].pc = "send"
  /\ proc' = [proc EXCEPT !.replies[proc.workers[w].id] = @ + 1,
                          !.workers[w] = WorkerIdle]
  /\ UNCHANGED steps
  /\ ServiceUnchanged

\* the send returning Err: main returns; AioResult::Send(Err(e)): panic
SendErrorAt(w) ==
  /\ ~proc.exited
  /\ proc.workers[w].pc = "send"
  /\ IF THREADS = 1
     THEN proc' = [proc EXCEPT !.exited = TRUE]
     ELSE Panic(w)
  /\ UNCHANGED steps
  /\ ServiceUnchanged

\* a step of some worker
Recv == \E w \in Workers : RecvAt(w)
RecvError == \E w \in Workers : RecvErrorAt(w)
Process == \E w \in Workers : ProcessAt(w)
Ids == \E w \in Workers : IdsAt(w)
Purge == \E w \in Workers : PurgeAt(w)
GetRank == \E w \in Workers : GetRankAt(w)
TopNodes == \E w \in Workers : TopNodesAt(w)
Seed == \E w \in Workers : SeedAt(w)
Send == \E w \in Workers : SendAt(w)
SendError == \E w \in Workers : SendErrorAt(w)

NextService ==
  \/ ClientRequest
  \/ Recv
  \/ RecvError
  \/ Process
  \/ Ids
  \/ Purge
  \/ GetRank
  \/ TopNodes
  \/ Seed
  \/ Send
  \/ SendError

SpecService == InitService /\ [][NextService]_vars

\* a worker between two locks of its request
Inside(w) == proc.workers[w].pc \in {"ids", "purge", "top", "seed"}

\* C28: every request runs its whole business logic under one exclusive
\* lock, so with several workers the steps of two requests never
\* interleave: no step changes the graph while another worker is between
\* two steps of its request (between the purge and the re-seed of a zerorec
\* request in particular).
C28_RequestsNeverInterleave ==
  [][proc'.GRAPH # proc.GRAPH =>
       \A w \in Workers : Inside(w) => proc'.workers[w] # proc.workers[w]]_vars

\* C29: once the socket listens, no request content and no runtime error
\* makes the process or a worker terminate or panic.
C29_NeverTerminatesNorPanics ==
  /\ ~proc.exited
  /\ \A w \in Workers : proc.workers[w].pc # "panicked"

\* the requests the workers have taken off the socket
Received ==
  {id \in 1 .. steps : \A m \in proc.socket : m.id # id}

\* C30: every received request gets exactly one reply, sent only after the
\* request was handled to completion, and a worker has one request in
\* progress at a time: a received request is in progress at a worker that
\* runs and has no reply yet, or it is with no worker and has one reply.
C30_ExactlyOneReplyAfterHandling ==
  \A id \in Received :
    \/ /\ proc.replies[id] = 0
       /\ Cardinality({w \in Workers : proc.workers[w].id = id}) = 1
       /\ \A w \in Workers :
            proc.workers[w].id = id =>
              ~proc.exited /\ proc.workers[w].pc \notin {"recv", "panicked"}
    \/ /\ proc.replies[id] = 1
       /\ \A w \in Workers : proc.workers[w].id # id

\* ------------------------------------------------------------------
\*  The node registry (C31, C37, C38, C40)
\* ------------------------------------------------------------------

\* Names of every kind: the empty name and names that start with a
\* lower-case letter are Unknown.
EmptyName == <<>>
LowerU    == <<"u", "1">>

\* The edges written, in the null context and in X; a run registers at
\* most MaxNodes of the names.
RegistryPairs ==
  {<<U1, B1>>, <<B1, U1>>, <<C1, B1>>, <<U1, N1>>, <<EmptyName, U1>>,
   <<B1, EmptyName>>, <<LowerU, C1>>}
RegistryContexts == {NullContext, CtxX}

RegistryPutEdge ==
  /\ steps < MaxOps
  /\ \E context \in RegistryContexts, p \in RegistryPairs :
       /\ find_or_add_node_by_name(find_or_add_node_by_name(St, p[1]), p[2])
            .node_count <= MaxNodes
       /\ Become(write_put_edge(St, context, p[1], p[2], 1))
       /\ last' = Cmd("write_put_edge", context, p[1], p[2], 1)
  /\ UNCHANGED <<s2, proc, hasher, reply>>

RegistryCreateContext ==
  /\ steps < MaxOps
  /\ \E context \in RegistryContexts :
       /\ Become(write_create_context(St, context))
       /\ last' = Cmd("write_create_context", context, NoArg, NoArg, 0)
  /\ UNCHANGED <<s2, proc, hasher, reply>>

RegistryDeleteNode ==
  /\ steps < MaxOps
  /\ \E context \in RegistryContexts, node \in {U1, B1} :
       /\ Become(write_delete_node(St, context, node))
       /\ last' = Cmd("write_delete_node", context, node, NoArg, 0)
  /\ UNCHANGED <<s2, proc, hasher, reply>>

RegistryMarkBeacons ==
  /\ steps < MaxOps
  /\ \E context \in RegistryContexts, scores \in ReadsEstimates :
       /\ find_or_add_node_by_name(St, U1).node_count <= MaxNodes
       /\ Become(write_mark_beacons(St, context, U1, scores))
       /\ last' = Cmd("write_mark_beacons", context, U1, NoArg, 0)
  /\ UNCHANGED <<s2, proc, hasher, reply>>

RegistryReset ==
  /\ steps < MaxOps
  /\ Become(write_reset(St))
  /\ last' = Cmd("write_reset", NoArg, NoArg, NoArg, 0)
  /\ UNCHANGED <<s2, proc, hasher, reply>>

NextRegistry ==
  \/ RegistryPutEdge
  \/ RegistryCreateContext
  \/ RegistryDeleteNode
  \/ RegistryMarkBeacons
  \/ RegistryReset

SpecRegistry == Init /\ [][NextRegistry]_vars

\* the kind the first character of a name stands for
KindOfFirst(name) ==
  IF name = <<>> THEN "Unknown"
  ELSE IF Head(name) = "U" THEN "User"
  ELSE IF Head(name) = "B" THEN "Beacon"
  ELSE IF Head(name) = "C" THEN "Comment"
  ELSE "Unknown"

\* C31: the kind of a node is fixed by the first character of its name when
\* the node is registered ('U' User, 'B' Beacon, 'C' Comment, anything else
\* or an empty name Unknown) and no operation changes it afterwards.
C31_KindFixedAtRegistration ==
  [][/\ \A name \in (DOMAIN node_ids') \ (DOMAIN node_ids) :
          node_infos'[node_ids'[name] + 1].kind = KindOfFirst(name)
     /\ \A name \in (DOMAIN node_ids') \cap (DOMAIN node_ids) :
          node_infos'[node_ids'[name] + 1].kind =
            node_infos[node_ids[name] + 1].kind]_vars

\* a Beacon, the empty name and a third node are registered, the empty name
\* is Unknown, and a command other than a put has run since
C31_Witness ==
  /\ node_count = 3
  /\ EmptyName \in DOMAIN node_ids
  /\ B1 \in DOMAIN node_ids
  /\ node_infos[node_ids[EmptyName] + 1].kind = "Unknown"
  /\ node_infos[node_ids[B1] + 1].kind = "Beacon"
  /\ last.op \in {"write_mark_beacons", "write_delete_node", "write_create_context"}

\* ------------------------------------------------------------------
\*  The frame of an edge written from a node that is not a User (C32)
\* ------------------------------------------------------------------

\* a step that puts or deletes an edge whose source is not a User
NonUserEdgeStep ==
  /\ last'.op \in {"write_put_edge", "write_delete_edge"}
  /\ kind_from_name(last'.src) # "User"
  /\ last'.src \in DOMAIN node_ids'
  /\ last'.dst \in DOMAIN node_ids'

\* the edge of the step, as ids
StepEdge == <<node_ids'[last'.src], node_ids'[last'.dst]>>

\* the contexts the step may write the edge in
StepContexts == {NullContext, last'.context}

\* weight of an edge before the step, 0 in a context that is not there
WeightBefore(c, e) == IF c \in DOMAIN contexts THEN contexts[c].w[e] ELSE 0

\* C32: set_edge(C, src, dst, w) with a non-User src changes only the weight
\* of (src, dst) in C and in the null context (with C null: in the null
\* context only); the weight of every other edge, and of (src, dst) in
\* every other context, is what it was before the call.
C32_OnlyTheEdgeInContextAndNull ==
  [][NonUserEdgeStep =>
       \A c \in DOMAIN contexts', e \in Pairs :
         (e # StepEdge \/ c \notin StepContexts) =>
           contexts'[c].w[e] = WeightBefore(c, e)]_vars

\* C32 (as the code has it): in the contexts that exist before the call
\* nothing changes but the weight of (src, dst) in C and in the null
\* context; a context the call creates (C, or the null context) starts with
\* the User edges of the null context, and no context goes away.
C32_OnlyTheEdgeInExistingContexts ==
  [][NonUserEdgeStep =>
       /\ DOMAIN contexts \subseteq DOMAIN contexts'
       /\ (DOMAIN contexts') \ (DOMAIN contexts) \subseteq StepContexts
       /\ \A c \in DOMAIN contexts', e \in Pairs :
            (e # StepEdge \/ c \notin StepContexts) =>
              contexts'[c].w[e] =
                IF c \in DOMAIN contexts THEN contexts[c].w[e]
                ELSE IF c # NullContext /\ NullContext \in DOMAIN contexts
                THEN UserEdgesOf(St, contexts[NullContext])[e]
                ELSE 0]_vars

\* an edge from the Comment was put in X, and X holds an edge of the User
\* beside it; Y exists and does not hold the Comment's edge, the null
\* context does
C32_Witness ==
  /\ last.op = "write_put_edge"
  /\ last.src = C1
  /\ last.context = CtxX
  /\ {NullContext, CtxX, CtxY} \subseteq DOMAIN contexts
  /\ WeightByName(CtxX, last.src, last.dst) # 0
  /\ WeightByName(NullContext, last.src, last.dst) # 0
  /\ WeightByName(CtxY, last.src, last.dst) = 0
  /\ WeightByName(CtxX, U1, C1) # 0


\* ------------------------------------------------------------------
\*  read_graph: the ego-to-focus path through Comments and Beacons (C34)
\* ------------------------------------------------------------------

\* The edges written before the queries, all in the null context and all
\* positive: the Comment C1 and the Beacon B1 follow each other on the way
\* to the User U1, and on the way from it.
PathPairs == {<<C1, B1>>, <<B1, U1>>, <<U1, C1>>, <<B1, C1>>, <<C1, U1>>}

\* The queries, as (ego, focus).
PathQueries == {<<C1, U1>>, <<U1, B1>>, <<B1, U1>>, <<U1, C1>>}

PathPutEdge ==
  /\ steps < MaxOps
  /\ \E p \in PathPairs :
       /\ Become(write_put_edge(St, NullContext, p[1], p[2], 1))
       /\ last' = Cmd("write_put_edge", NullContext, p[1], p[2], 1)
  /\ reply' = NoReply
  /\ UNCHANGED <<s2, proc, hasher>>

\* read_graph(null, ego, focus, false, 0, count) with the path that the
\* search leaves
PathReadGraph ==
  /\ steps < MaxOps
  /\ \E names \in PathQueries :
       LET ego   == names[1]
           focus == names[2]
           known == /\ NullContext \in DOMAIN contexts
                    /\ node_exists(St, ego)
                    /\ node_exists(St, focus)
           paths == IF known
                    THEN PathsLeft(contexts[NullContext], node_ids[ego], node_ids[focus])
                    ELSE {<<>>}
       IN  \E ego_to_focus \in paths :
             LET q == [positive_only |-> FALSE, index |-> 0,
                       count |-> MaxNodes * MaxNodes,
                       scores |-> [id \in IdSpace |-> 1],
                       ego_to_focus |-> ego_to_focus]
                 r == read_graph_result(St, NullContext, ego, focus, q)
             IN  /\ Become(read_graph(St, NullContext, ego, focus, FALSE))
                 /\ last' = Cmd("read_graph", NullContext, ego, focus, 0)
                 /\ reply' = [op |-> "read_graph", context |-> NullContext,
                              ego |-> ego, focus |-> focus, q |-> q,
                              known |-> known, panic |-> r.panic,
                              added |-> r.added, rows |-> r.rows]
  /\ UNCHANGED <<s2, proc, hasher>>

NextPath ==
  \/ PathPutEdge
  \/ PathReadGraph

SpecPath == Init /\ [][NextPath]_vars

\* the search has found the path from ego to focus
PathFound ==
  /\ last.op = "read_graph"
  /\ reply.known
  /\ Len(reply.q.ego_to_focus) >= 2
  /\ reply.q.ego_to_focus[Len(reply.q.ego_to_focus)] = node_ids[reply.focus]

\* C34: no edge that read_graph adds from the ego-to-focus path has a Comment
\* or a Beacon as its source: a non-User node in the middle of the path is
\* replaced by one contracted edge, the last edge is taken only from a User,
\* also when two non-User nodes follow each other on the path.
C34_NoPathEdgeFromNonUser ==
  PathFound =>
    \A k \in 1 .. Len(path_edges(St, reply.context, reply.q.ego_to_focus)) :
      node_info_from_id(St,
        path_edges(St, reply.context, reply.q.ego_to_focus)[k][1]).kind = "User"


\* ------------------------------------------------------------------
\*  read_graph: what the loop passes to the search and the buffers it
\*  gives it (C35, C36)
\* ------------------------------------------------------------------

\* the step is one pass of the loop: `iteration` is called with the value
\* the variable `neighbor` has before the step
IterationCalled == proc.pc = "search" /\ proc'.n = proc.n + 1

\* link is the answer for request: the positive edge of request.node at
\* position request.index, or None when the node has no data or fewer
\* positive edges
AnswersRequest(link, request) ==
  LET graph == contexts[NullContext]
      P     == {d \in IdSpace : graph.w[<<request.node, d>>] > 0}
  IN  IF ~contains_node(graph, request.node) \/ request.index >= Cardinality(P)
      THEN link = NoneLink
      ELSE /\ link # NoneLink
           /\ link.neighbor \in P
           /\ Cardinality({d \in P : d < link.neighbor}) = request.index

\* C35 as stated: the answer to NEIGHBOR(node, k) is the k-th positive edge
\* of node or None, the call right after the request receives it, and a
\* call that follows PROGRESS or OUT_OF_MEMORY receives no neighbour.
C35_NeighborPassedExactlyOnce ==
  [][IterationCalled =>
       /\ proc.status.name = "NEIGHBOR" =>
            AnswersRequest(proc.neighbor, proc.status.request)
       /\ proc.status.name \in {"PROGRESS", "OUT_OF_MEMORY"} =>
            proc.neighbor = NoneLink]_vars

\* C35, amended: the answer to NEIGHBOR(node, k) is the k-th positive edge
\* of node or None and the call right after the request receives it; no
\* other outcome changes `neighbor`, so a call that follows PROGRESS or
\* OUT_OF_MEMORY receives what the call before it received, and the first
\* call receives None.
C35_NeighborPassedUntilNextRequest ==
  [][IterationCalled =>
       /\ proc.n = 0 => proc.neighbor = NoneLink
       /\ proc.status.name = "NEIGHBOR" =>
            AnswersRequest(proc.neighbor, proc.status.request)
       /\ proc'.status.name = "NEIGHBOR" =>
            AnswersRequest(proc'.neighbor, proc'.status.request)
       /\ proc'.status.name # "NEIGHBOR" => proc'.neighbor = proc.neighbor]_vars

\* the next call follows PROGRESS and receives the answer to an earlier
\* request for the first edge of the ego
C35_Witness ==
  /\ proc.pc = "search"
  /\ proc.status.name = "PROGRESS"
  /\ proc.n >= 2 /\ proc.n < iteration_cap
  /\ proc.neighbor # NoneLink
  /\ proc.neighbor.neighbor = node_ids[U2]

C37_RegistryInSync ==
  /\ node_count = Len(node_infos)
  /\ node_count = Cardinality(DOMAIN node_ids)
  /\ \A name \in DOMAIN node_ids :
       /\ node_ids[name] \in 0 .. (node_count - 1)
       /\ node_infos[node_ids[name] + 1].name = name
  /\ \A i \in 0 .. (node_count - 1) :
       /\ node_infos[i + 1].name \in DOMAIN node_ids
       /\ node_ids[node_infos[i + 1].name] = i

\* the Beacon B1 and the empty name are the two registered nodes, after at
\* least three commands
C37_Witness ==
  /\ last.op = "write_put_edge"
  /\ steps >= 3
  /\ node_count = 2
  /\ EmptyName \in DOMAIN node_ids
  /\ node_ids[EmptyName] = 1
  /\ node_ids[B1] = 0

\* C38: in every reachable state every context knows every registered id
\* (all ids below node_count), the contexts that existed when a node was
\* registered and those created afterwards alike; set_edge therefore never
\* addresses a node its context does not know.
C38_ContextsKnowEveryId ==
  /\ \A c \in DOMAIN contexts :
       \A id \in 0 .. (node_count - 1) : contains_node(contexts[c], id)
  /\ last.op = "write_put_edge" =>
       /\ last.context \in DOMAIN contexts
       /\ contains_node(contexts[last.context], node_ids[last.src])
       /\ contains_node(contexts[last.context], node_ids[last.dst])

\* the Comment C1 was registered last, by a put in the null context, while X
\* existed: X holds an edge and none that touches C1
C38_Witness ==
  /\ last.op = "write_put_edge" /\ last.context = NullContext /\ last.src = C1
  /\ node_count = 3
  /\ node_ids[C1] = 2
  /\ CtxX \in DOMAIN contexts
  /\ contexts[CtxX].nodes = 3
  /\ \E e \in Pairs : contexts[CtxX].w[e] # 0
  /\ \A e \in Pairs : (e[1] = 2 \/ e[2] = 2) => contexts[CtxX].w[e] = 0


\* ------------------------------------------------------------------
\*  write_mark_beacons: what the call leaves alone (C40)
\* ------------------------------------------------------------------

\* the step is a call write_mark_beacons(C, S)
MarkBeaconsStep == last'.op = "write_mark_beacons"

\* every node registered before the step keeps its id, name and kind; its
\* mark set loses no bit, and changes only for a Beacon, by the bits of (C, S)
MarksOnlyAdded ==
  /\ \A name \in DOMAIN node_ids :
       name \in DOMAIN node_ids' /\ node_ids'[name] = node_ids[name]
  /\ \A i \in 1 .. Len(node_infos) :
       /\ node_infos'[i].name = node_infos[i].name
       /\ node_infos'[i].kind = node_infos[i].kind
       /\ node_infos[i].marks \subseteq node_infos'[i].marks
       /\ node_infos'[i].marks # node_infos[i].marks =>
            /\ node_infos[i].kind = "Beacon"
            /\ node_infos'[i].marks =
                 node_infos[i].marks \cup bloom_filter_bits(last'.context, last'.src)

\* every context that exists before the step keeps every edge weight
WeightsKept ==
  \A c \in DOMAIN contexts :
    /\ c \in DOMAIN contexts'
    /\ contexts'[c].w = contexts[c].w

\* C40 as stated: write_mark_beacons(C, S) changes nothing but mark sets of
\* Beacons (and walk caches): it registers no node, creates no context and
\* changes no edge weight, also when S or C was unknown, and it only adds
\* bits to a mark set.
C40_MarkBeaconsChangesOnlyMarks ==
  [][MarkBeaconsStep =>
       /\ node_count' = node_count
       /\ node_ids' = node_ids
       /\ Len(node_infos') = Len(node_infos)
       /\ DOMAIN contexts' = DOMAIN contexts
       /\ \A c \in DOMAIN contexts : contexts'[c].nodes = contexts[c].nodes
       /\ WeightsKept
       /\ MarksOnlyAdded]_vars

\* C40, amended: write_mark_beacons(C, S) registers S when S is unknown (as
\* the next id, with an empty mark set, and every context is told of the id)
\* and creates C when C does not exist and a Beacon is registered; apart from
\* that it changes only mark sets of Beacons (and walk caches): no other node
\* is registered, no other context is created, no edge weight of an existing
\* context changes, and a mark set only gains the bits of (C, S).
C40_MarkBeaconsRegistersAndCreates ==
  [][MarkBeaconsStep =>
       /\ IF last'.src \in DOMAIN node_ids
          THEN node_count' = node_count /\ node_ids' = node_ids
          ELSE /\ node_count' = node_count + 1
               /\ DOMAIN node_ids' = (DOMAIN node_ids) \cup {last'.src}
               /\ node_ids'[last'.src] = node_count
               /\ node_infos'[node_count + 1].name = last'.src
               /\ node_infos'[node_count + 1].marks = {}
       /\ Len(node_infos') = node_count'
       /\ DOMAIN contexts' \subseteq (DOMAIN contexts) \cup {last'.context}
       /\ last'.context \in (DOMAIN contexts') \ (DOMAIN contexts) =>
            \E i \in 1 .. Len(node_infos') : node_infos'[i].kind = "Beacon"
       /\ \A c \in DOMAIN contexts' : contexts'[c].nodes >= node_count'
       /\ WeightsKept
       /\ MarksOnlyAdded]_vars

\* write_mark_beacons("X", U1) has marked the Beacon B1, which U1 has an
\* edge to in X and which holds the bits of another mark as well
C40_Witness ==
  /\ last.op = "write_mark_beacons" /\ last.context = CtxX
  /\ CtxX \in DOMAIN contexts
  /\ U1 \in DOMAIN node_ids /\ B1 \in DOMAIN node_ids
  /\ contexts[CtxX].w[<<node_ids[U1], node_ids[B1]>>] > 0
  /\ bloom_filter_bits(CtxX, U1) \subseteq node_infos[node_ids[B1] + 1].marks
  /\ bloom_filter_bits(NullContext, U1) \subseteq node_infos[node_ids[B1] + 1].marks
  /\ bloom_filter_bits(NullContext, U1) # bloom_filter_bits(CtxX, U1)


\* ------------------------------------------------------------------
\*  The service: the handlers and the lock of GRAPH (C39)
\* ------------------------------------------------------------------

\* The requests: an edge between U1 and U2, the deletion of a node, the
\* score of a node, and gravity_graph(U1, U2, .., limit) with a limit the
\* conversion to usize takes and with one it does not.
LockRequests ==
  {[kind |-> "edge",        limit |-> 0],
   [kind |-> "delete_node", limit |-> 0],
   [kind |-> "node_score",  limit |-> 0],
   [kind |-> "gravity",     limit |-> 1],
   [kind |-> "gravity",     limit |-> -1]}

\* GraphSingleton::get_rank, node_name_to_id: the lock is taken for the call
\* and dropped when it returns
locked_call == <<"lock", "unlock">>

\* What a handler does with GRAPH, in order: "lock" is `GRAPH.lock()`,
\* "unlock" the end of the scope of the guard; "register" stands for
\* get_node_id of both names under the guard, "focus" for the part of
\* gravity_graph that looks up focus and ego and cuts at the limit.
handler_ops(kind) ==
  CASE kind = "edge"        -> <<"lock", "register", "unlock">>
    [] kind = "delete_node" -> <<"lock", "unlock">>
    [] kind = "node_score"  -> locked_call \o locked_call \o locked_call
    [] kind = "gravity"     -> locked_call \o <<"lock", "focus", "unlock">>
    [] OTHER                -> <<>>

LockWorkers == 1 .. 2

LockIdle == [pc |-> "recv", req |-> [kind |-> "none", limit |-> 0], todo |-> <<>>]

\* The threads that hold the lock: none, or one.
NoHolder == {}

InitLock ==
  /\ node_count = AugMultiGraph_new.node_count
  /\ node_infos = AugMultiGraph_new.node_infos
  /\ node_ids   = AugMultiGraph_new.node_ids
  /\ contexts   = AugMultiGraph_new.contexts
  /\ last       = [op |-> "new", context |-> NoArg, src |-> NoArg,
                    dst |-> NoArg, amount |-> 0, rel |-> "none",
                    pre |-> NoPre]
  /\ steps      = 0
  /\ s2         = S2Idle
  /\ hasher     = NoCollisions
  /\ reply      = NoReply
  /\ \E threads \in ThreadCounts :
       proc = [pc |-> "lock", threads |-> threads, holder |-> NoHolder,
               poisoned |-> FALSE, known |-> FALSE, exited |-> FALSE,
               workers |-> [w \in LockWorkers |->
                              IF w <= threads THEN LockIdle
                              ELSE [LockIdle EXCEPT !.pc = "off"]]]

\* the handler returns, with Ok or with Err: a guard it holds is dropped,
\* and process(req) hands the bytes to the worker
handler_returns(w) ==
  [proc EXCEPT !.holder = @ \ {w},
               !.workers[w] = [@ EXCEPT !.pc = "send", !.todo = <<>>]]

\* the handler goes on after the operation at the head of its list
handler_goes_on(p, w) ==
  IF Len(p.workers[w].todo) = 1
  THEN [p EXCEPT !.holder = @ \ {w},
                 !.workers[w] = [@ EXCEPT !.pc = "send", !.todo = <<>>]]
  ELSE [p EXCEPT !.workers[w].todo = Tail(@)]

\* a message is received and process(req) starts the handler
LockRecvAt(w) ==
  /\ ~proc.exited
  /\ steps < MaxRequests
  /\ proc.workers[w].pc = "recv"
  /\ \E req \in LockRequests :
       proc' = [proc EXCEPT !.workers[w] =
                  [pc |-> "run", req |-> req, todo |-> handler_ops(req.kind)]]
  /\ steps' = steps + 1
  /\ ServiceUnchanged

\* `GRAPH.lock()`: the thread waits while a thread holds the lock, itself
\* included; from a poisoned lock it gets Err, which the handler returns
LockTakeAt(w) ==
  /\ ~proc.exited
  /\ proc.workers[w].pc = "run"
  /\ Head(proc.workers[w].todo) = "lock"
  /\ proc.holder = NoHolder
  /\ proc' = IF proc.poisoned THEN handler_returns(w)
             ELSE handler_goes_on([proc EXCEPT !.holder = {w}], w)
  /\ UNCHANGED steps
  /\ ServiceUnchanged

\* the part of a handler that runs under the guard: mr_edge registers the
\* names; gravity_graph returns Err for a name that is not registered
LockBodyAt(w) ==
  /\ ~proc.exited
  /\ proc.workers[w].pc = "run"
  /\ \/ /\ Head(proc.workers[w].todo) = "register"
        /\ proc' = handler_goes_on([proc EXCEPT !.known = TRUE], w)
     \/ /\ Head(proc.workers[w].todo) = "focus"
        /\ ~proc.known
        /\ proc' = handler_returns(w)
     \/ /\ Head(proc.workers[w].todo) = "focus"
        /\ proc.known
        /\ proc.workers[w].req.limit >= 0
        /\ proc' = handler_goes_on(proc, w)
  /\ UNCHANGED steps
  /\ ServiceUnchanged

\* `.take(limit.try_into().unwrap())` with a negative limit, under the
\* guard: the panic unwinds, the guard is dropped and the lock is poisoned
LockPanicAt(w) ==
  /\ ~proc.exited
  /\ proc.workers[w].pc = "run"
  /\ Head(proc.workers[w].todo) = "focus"
  /\ proc.known
  /\ proc.workers[w].req.limit < 0
  /\ \E abort \in BOOLEAN :
       /\ THREADS = 1 => abort
       /\ proc' = [proc EXCEPT !.holder = @ \ {w},
                               !.poisoned = @ \/ (w \in proc.holder),
                               !.exited = abort,
                               !.workers[w].pc = "panicked"]
  /\ UNCHANGED steps
  /\ ServiceUnchanged

\* the end of the scope of the guard
LockDropAt(w) ==
  /\ ~proc.exited
  /\ proc.workers[w].pc = "run"
  /\ Head(proc.workers[w].todo) = "unlock"
  /\ proc' = handler_goes_on([proc EXCEPT !.holder = @ \ {w}], w)
  /\ UNCHANGED steps
  /\ ServiceUnchanged

\* the reply is sent and the worker waits for the next message
LockSendAt(w) ==
  /\ ~proc.exited
  /\ proc.workers[w].pc = "send"
  /\ proc' = [proc EXCEPT !.workers[w] = LockIdle]
  /\ UNCHANGED steps
  /\ ServiceUnchanged

LockRecv  == \E w \in LockWorkers : LockRecvAt(w)
LockTake  == \E w \in LockWorkers : LockTakeAt(w)
LockBody  == \E w \in LockWorkers : LockBodyAt(w)
LockPanic == \E w \in LockWorkers : LockPanicAt(w)
LockDrop  == \E w \in LockWorkers : LockDropAt(w)
LockSend  == \E w \in LockWorkers : LockSendAt(w)

NextLock ==
  \/ LockRecv
  \/ LockTake
  \/ LockBody
  \/ LockPanic
  \/ LockDrop
  \/ LockSend

\* A thread that runs goes on running; a thread that waits for the lock
\* gets it if the lock is free again and again.
LockFairness ==
  \A w \in LockWorkers :
    /\ WF_vars(LockBodyAt(w) \/ LockPanicAt(w) \/ LockDropAt(w) \/ LockSendAt(w))
    /\ SF_vars(LockTakeAt(w))

SpecLock == InitLock /\ [][NextLock]_vars /\ LockFairness

\* the thread w waits in `GRAPH.lock()`
WaitsForLock(w) ==
  /\ proc.workers[w].pc = "run"
  /\ Head(proc.workers[w].todo) = "lock"

\* no handler calls `GRAPH.lock()` while its thread holds the lock, and no
\* handler has returned with the lock held
NoRelockNoLeak ==
  \A w \in LockWorkers :
    /\ WaitsForLock(w) => w \notin proc.holder
    /\ proc.workers[w].pc \in {"recv", "send", "off"} => w \notin proc.holder

\* C39: no handler takes the lock of GRAPH while its thread holds it, every
\* handler releases the lock before it returns, and so, with any number of
\* worker threads, every request that waits for the lock gets it and every
\* request completes.
C39_NoRelockAndEveryRequestCompletes ==
  /\ []NoRelockNoLeak
  /\ \A w \in LockWorkers :
       /\ WaitsForLock(w) ~> (w \in proc.holder)
       /\ (proc.workers[w].pc = "run") ~> (proc.workers[w].pc = "send")

====
